---- MODULE Spec2Model ----
(***************************************************************************)
(* A model of the node-local dataplane attachment engine of kube-ovn       *)
(* (pkg/daemon): the residual port reaper, the pod NIC attach/detach       *)
(* handlers with the namespace installer and the reachability prober, the  *)
(* uplink bridge migrator, the daemon's Run with its work queues and its   *)
(* provider network handlers; and of Run, shutdown and startWorkers of the *)
(* cluster controller.                                                     *)
(*                                                                         *)
(* The module holds these specifications over one set of variables:        *)
(*   SpecReaper    markAndCleanInternalPort and the port churn around it   *)
(*   Spec          cniServerHandler.configureNic / deleteNic for one pod   *)
(*   SpecNode      configureNodeNic on ovn0                                *)
(*   SpecUplink    configProviderNic / removeProviderNic, step by step     *)
(*   SpecPorts     the three attach handlers and deleteNic for two pods    *)
(*   SpecShared    configureNic / deleteNic for pods with two interfaces   *)
(*   SpecNames     generateNicName on its own                              *)
(*   SpecProbe     waitNetworkReady, probe by probe                        *)
(*   SpecInstall   configureContainerNic with static routes                *)
(*   SpecAddrs     the address movers and the link-local addresses         *)
(*   SpecProvision the device provisioners of the attach handlers          *)
(*   SpecCluster   the cluster controller: its queues and its workers      *)
(*   SpecDaemon    the daemon's Run and the workers of its four queues     *)
(*   SpecQueues    SpecDaemon with workers and timers that keep running    *)
(*   SpecProvider  the provider network handlers of the daemon             *)
(***************************************************************************)
EXTENDS Integers, Sequences, FiniteSets, TLC

(***************************************************************************)
(* Residual port reaper: state                                             *)
(***************************************************************************)
VARIABLES
    brIntInternal,      \* nicNames of the internal ports on br-int (the reaper's view)
    livePods,           \* internal ports whose container is live
    lastNoPodOvsPort,   \* controller.go:548, the reaper memory
    gcSweep,            \* the running sweep: where it is, and the list it read
    gcErr,              \* whether the latest sweep returned an error
    gcPrevErr,          \* whether the sweep before it did
    gcResidual,         \* residual list of the latest sweep, as a set
    gcPrevResidual,     \* residual list of the sweep before it
    gcMarkedBefore,     \* the reaper memory when the latest sweep started
    gcDelCalls,         \* del-port calls of the latest sweep, per port
    gcDeleted,          \* ports whose del-port succeeded in the latest sweep
    gcPrevDeleted,      \* the same for the sweep before it
    gcEverDeleted,      \* ports deleted by a sweep before the latest one
    gcSinceRestart      \* sweeps finished since the latest restart, -1 before any

reaperVars == <<brIntInternal, livePods, lastNoPodOvsPort, gcSweep, gcErr, gcPrevErr,
                gcResidual, gcPrevResidual, gcMarkedBefore, gcDelCalls,
                gcDeleted, gcPrevDeleted, gcEverDeleted, gcSinceRestart>>

(***************************************************************************)
(* Uplink bridge migrator: state                                           *)
(***************************************************************************)
VARIABLES
    nicPresent,     \* whether netlink.LinkByName(nicName) finds the uplink
    nicLink,        \* the kind of link the uplink is: device, bond or VLAN
    linkAddrs,      \* the addresses on the uplink ("nic") and on the bridge ("br")
    routeDev,       \* for each route, the link it is on, or "none"
    nicInBridge,    \* whether the uplink is a port of the bridge
    brHwaddr,       \* other-config:hwaddr of the bridge
    brMtu,          \* MTU of the bridge
    brUp,           \* whether the bridge is up
    nicUp,          \* whether the uplink is up
    brDisableIPv6,  \* net.ipv6.conf.<bridge>.disable_ipv6
    pnOp,           \* the latest call: "config", "remove" or "none"
    pnPc,           \* where the running call is, "idle" when none runs
    pnAddrs,        \* addrs of the running call still to be visited
    pnRoutes,       \* routes snapshot of the running call
    pnQueue,        \* the routes of the snapshot still to be replayed
    pnCur,          \* the address deleted from one link and not yet on the other
    pnResult,       \* how the latest call ended: "ok", "err", "stopped" or "none"
    pnMtu,          \* the MTU the latest configProviderNic returned
    pnReplayed,     \* the routes the latest call replayed, in order
    pnRemoveSeen,   \* whether removeProviderNic has run
    origAddrs,      \* the addresses the uplink had at the start
    origRoutes      \* the routes the uplink had at the start

hwVars == <<nicPresent, nicLink, origAddrs, origRoutes>>

osVars == <<linkAddrs, routeDev, nicInBridge, brHwaddr, brMtu, brUp, nicUp,
            brDisableIPv6>>

callVars == <<pnOp, pnPc, pnAddrs, pnRoutes, pnQueue, pnCur, pnResult, pnMtu,
              pnReplayed, pnRemoveSeen>>

uplinkVars == <<hwVars, osVars, callVars>>

(***************************************************************************)
(* Pod and node NIC handlers: state                                        *)
(***************************************************************************)
VARIABLES
    nic,        \* devices, addresses and routes of the containers, br-int ports
    ovn0,       \* the node NIC: whether the link exists, and its addresses
    lastCall,   \* the latest handler call: arguments, result, operations made
    nicNames,      \* generateNicName on its own: the arguments and the results
    probing     \* waitNetworkReady probe by probe: arguments, position, probes sent

nicVars == <<nic, ovn0, lastCall, nicNames, probing>>

(***************************************************************************)
(* Controllers: state                                                      *)
(***************************************************************************)
VARIABLES
    cluster,    \* the cluster controller: configuration, queues, workers, what it waits for
    daemon,     \* the node daemon: where Run is, its goroutines, its four queues
    pnNode      \* the node's labels and a provider network's status, and the latest handler run

controlVars == <<cluster, daemon, pnNode>>

vars == <<reaperVars, uplinkVars, nicVars, controlVars>>

\* what the steps of one component leave alone: the other components
notReaper == <<uplinkVars, nicVars, controlVars>>
notUplink == <<reaperVars, nicVars, controlVars>>
notNic == <<reaperVars, uplinkVars, controlVars>>
notControl == <<reaperVars, uplinkVars, nicVars>>
notCluster == <<notControl, daemon, pnNode>>
notDaemon == <<notControl, cluster, pnNode>>
notProvider == <<notControl, cluster, daemon>>

\* the port nicNames the reaper model ranges over
InternalPorts == {"a_c", "b_c"}

NoCalls == [p \in InternalPorts |-> 0]

(***************************************************************************)
(* Residual port reaper: operations                                        *)
(***************************************************************************)

\* ovs.GetResidualInternalPorts: the internal ports with no live container
GetResidualInternalPorts == brIntInternal \ livePods

\* every order in which a list can hold the elements of S, each once
Orderings(S) ==
    {f \in [1..Cardinality(S) -> S] : \A i, j \in 1..Cardinality(S) : f[i] = f[j] => i = j}

\* the loop of markAndCleanInternalPort over residualPorts from index i on;
\* failing holds the ports whose del-port the switch refuses in this sweep
RECURSIVE GcLoop(_, _, _, _)
GcLoop(residualPorts, i, failing, acc) ==
    IF i > Len(residualPorts)
    THEN acc
    ELSE LET portName == residualPorts[i] IN
         IF portName \notin lastNoPodOvsPort
         THEN GcLoop(residualPorts, i + 1, failing,
                     [acc EXCEPT !.noPodOvsPort = @ \cup {portName}])
         ELSE IF portName \in failing
              THEN [acc EXCEPT !.err = TRUE, !.calls[portName] = @ + 1]
              ELSE GcLoop(residualPorts, i + 1, failing,
                          [acc EXCEPT !.deleted = @ \cup {portName},
                                      !.calls[portName] = @ + 1])

\* markAndCleanInternalPort assigning the memory before it returns an error
GcResultAssignsOnError(residualPorts, failing) ==
    IF Len(residualPorts) = 0
    THEN [err |-> FALSE, assigned |-> FALSE, noPodOvsPort |-> {},
          deleted |-> {}, calls |-> NoCalls]
    ELSE LET r == GcLoop(residualPorts, 1, failing,
                         [err |-> FALSE, noPodOvsPort |-> {}, deleted |-> {},
                          calls |-> NoCalls])
         IN  [err |-> r.err, assigned |-> TRUE, noPodOvsPort |-> r.noPodOvsPort,
              deleted |-> r.deleted, calls |-> r.calls]

\* what one call of markAndCleanInternalPort does with the list it was given
GcResult(residualPorts, failing) ==
    IF Len(residualPorts) = 0
    THEN [err |-> FALSE, assigned |-> FALSE, noPodOvsPort |-> {},
          deleted |-> {}, calls |-> NoCalls]
    ELSE LET r == GcLoop(residualPorts, 1, failing,
                         [err |-> FALSE, noPodOvsPort |-> {}, deleted |-> {},
                          calls |-> NoCalls])
         IN  [err |-> r.err, assigned |-> ~r.err, noPodOvsPort |-> r.noPodOvsPort,
              deleted |-> r.deleted, calls |-> r.calls]

\* the sweeps after a restart are counted up to this number
MaxSweepsCounted == 3

\* no sweep is running
NoSweep == [pc |-> "idle", residualPorts |-> <<>>]

\* Controller.Run starts a sweep every five minutes (lines 676-680), and the
\* sweep reads the residual list (line 552); the handlers of attach and
\* detach run in their own goroutines and can act before the loop does
GcListResidualPorts ==
    /\ gcSweep.pc = "idle"
    /\ \E residualPorts \in Orderings(GetResidualInternalPorts) :
          gcSweep' = [pc |-> "loop", residualPorts |-> residualPorts]
    /\ UNCHANGED <<brIntInternal, livePods, lastNoPodOvsPort, gcErr, gcPrevErr,
                   gcResidual, gcPrevResidual, gcMarkedBefore, gcDelCalls,
                   gcDeleted, gcPrevDeleted, gcEverDeleted, gcSinceRestart>>
    /\ UNCHANGED notReaper

\* the rest of the sweep, lines 553-572: the loop over the list that was read
\* and the assignment of the memory
markAndCleanInternalPort ==
    /\ gcSweep.pc = "loop"
    /\ LET residualPorts == gcSweep.residualPorts
           listed == {residualPorts[i] : i \in 1..Len(residualPorts)}
       IN  \E failing \in SUBSET (listed \cap lastNoPodOvsPort) :
        LET r == GcResult(residualPorts, failing) IN
        /\ brIntInternal' = brIntInternal \ r.deleted
        /\ lastNoPodOvsPort' = IF r.assigned THEN r.noPodOvsPort ELSE lastNoPodOvsPort
        /\ gcSweep' = NoSweep
        /\ gcErr' = r.err
        /\ gcPrevErr' = gcErr
        /\ gcResidual' = listed
        /\ gcPrevResidual' = gcResidual
        /\ gcMarkedBefore' = lastNoPodOvsPort
        /\ gcDelCalls' = r.calls
        /\ gcDeleted' = r.deleted
        /\ gcPrevDeleted' = gcDeleted
        /\ gcEverDeleted' = gcEverDeleted \cup gcDeleted
        /\ gcSinceRestart' = IF gcSinceRestart \in 0..(MaxSweepsCounted - 1)
                             THEN gcSinceRestart + 1 ELSE gcSinceRestart
        /\ UNCHANGED <<livePods, notReaper>>

\* the history of the sweeps is left alone by everything that is not a sweep
gcHistory == <<gcErr, gcPrevErr, gcResidual, gcPrevResidual, gcMarkedBefore,
               gcDelCalls, gcDeleted, gcPrevDeleted, gcEverDeleted>>


\* an attach with an in-switch port creates the port for a live container
InternalPortAttached(p) ==
    /\ p \notin brIntInternal
    /\ brIntInternal' = brIntInternal \cup {p}
    /\ livePods' = livePods \cup {p}
    /\ UNCHANGED <<lastNoPodOvsPort, gcSweep, gcHistory, gcSinceRestart>>
    /\ UNCHANGED notReaper

\* the container of a port goes away and leaves the port behind
ContainerGone(p) ==
    /\ p \in livePods
    /\ livePods' = livePods \ {p}
    /\ UNCHANGED <<brIntInternal, lastNoPodOvsPort, gcSweep, gcHistory, gcSinceRestart>>
    /\ UNCHANGED notReaper

\* a container comes back for a port that was left behind (pod restart)
ContainerBack(p) ==
    /\ p \in brIntInternal \ livePods
    /\ livePods' = livePods \cup {p}
    /\ UNCHANGED <<brIntInternal, lastNoPodOvsPort, gcSweep, gcHistory, gcSinceRestart>>
    /\ UNCHANGED notReaper

\* deleteNic removes the port of a container
InternalPortDetached(p) ==
    /\ p \in brIntInternal
    /\ brIntInternal' = brIntInternal \ {p}
    /\ livePods' = livePods \ {p}
    /\ UNCHANGED <<lastNoPodOvsPort, gcSweep, gcHistory, gcSinceRestart>>
    /\ UNCHANGED notReaper

\* the process restarts: the package-level variable starts out nil again
ProcessRestart ==
    /\ lastNoPodOvsPort # {} \/ gcSweep # NoSweep \/ gcSinceRestart # 0
    /\ lastNoPodOvsPort' = {}
    /\ gcSweep' = NoSweep
    /\ gcSinceRestart' = 0
    /\ UNCHANGED <<brIntInternal, livePods, gcHistory>>
    /\ UNCHANGED notReaper

ReaperInit ==
    /\ brIntInternal = {}
    /\ livePods = {}
    /\ lastNoPodOvsPort = {}
    /\ gcSweep = NoSweep
    /\ gcErr = FALSE
    /\ gcPrevErr = FALSE
    /\ gcResidual = {}
    /\ gcPrevResidual = {}
    /\ gcMarkedBefore = {}
    /\ gcDelCalls = NoCalls
    /\ gcDeleted = {}
    /\ gcPrevDeleted = {}
    /\ gcEverDeleted = {}
    /\ gcSinceRestart = -1

ReaperNext ==
    \/ GcListResidualPorts
    \/ markAndCleanInternalPort
    \/ \E p \in InternalPorts : InternalPortAttached(p)
    \/ \E p \in InternalPorts : ContainerGone(p)
    \/ \E p \in InternalPorts : ContainerBack(p)
    \/ \E p \in InternalPorts : InternalPortDetached(p)
    \/ ProcessRestart

(***************************************************************************)
(* Residual port reaper: claims                                            *)
(***************************************************************************)

\* C1: a sweep deletes a port only if the port was in the residual list of
\* that sweep and in the residual list of the sweep right before it, whatever
\* the earlier sweeps were (empty lists and sweeps that ended in an error
\* included).
C1_DeletedOnlyIfResidualTwice ==
    gcDeleted \subseteq (gcResidual \cap gcPrevResidual)

\* C2: a port that sweep N-1 marked (it was listed, put in the memory and not
\* deleted) and that sweep N lists again is deleted in sweep N by exactly one
\* del-port call and is no longer in the reaper memory (stated for the sweeps
\* in which the switch refuses no del-port); a port deleted before is deleted
\* again only after two further consecutive sweeps listed it.
C2_DeletedExactlyOnce ==
    /\ \A p \in InternalPorts :
          (/\ ~gcPrevErr
           /\ ~gcErr
           /\ p \in gcPrevResidual
           /\ p \in gcMarkedBefore
           /\ p \in gcResidual)
          => (/\ gcDelCalls[p] = 1
              /\ p \in gcDeleted
              /\ p \notin lastNoPodOvsPort)
    /\ \A p \in gcDeleted \cap gcEverDeleted :
          p \in gcPrevResidual /\ p \notin gcPrevDeleted

\* C17: whatever attach and detach calls run between the steps of a sweep,
\* the reaper deletes no port whose container is live when del-port runs, so
\* every live container still has its port; and a port that was not residual
\* at two consecutive sweeps (orphaned for a moment only) is not deleted.
C17_ReaperSparesLivePorts ==
    /\ livePods \subseteq brIntInternal
    /\ gcSweep.pc = "idle" => gcDeleted \cap (InternalPorts \ gcPrevResidual) = {}

\* C18: after a process restart the first sweep deletes no port; a port that
\* the first and the second sweep after the restart both list is deleted by
\* the second one (when the switch refuses no del-port); and no sweep after
\* a restart deletes a port that was not in the residual list of that sweep
\* and of the sweep right before it.
C18_RestartEmptiesMemory ==
    /\ gcSinceRestart = 1 => gcDeleted = {}
    /\ (gcSinceRestart = 2 /\ ~gcErr) => (gcResidual \cap gcPrevResidual) \subseteq gcDeleted
    /\ gcSinceRestart >= 1 => gcDeleted \subseteq (gcResidual \cap gcPrevResidual)

\* C39: a sweep that returns an error has made its last del-port call for
\* the port the switch refused: that port is not deleted, no port after it
\* in the residual list is deleted or gets a del-port call, every marked port
\* before it in the list is deleted, and the reaper memory is what it was
\* when the sweep started; a sweep over an empty residual list returns no
\* error and leaves the memory as it was too.
C39_FailedSweepKeepsMemory ==
    [][(gcSweep.pc = "loop" /\ gcSweep'.pc = "idle" /\ gcSinceRestart' # 0) =>  \* the sweep ends
         LET residualPorts == gcSweep.residualPorts IN
         /\ gcErr' =>
               /\ lastNoPodOvsPort' = lastNoPodOvsPort
               /\ \E i \in 1..Len(residualPorts) :
                     /\ residualPorts[i] \in lastNoPodOvsPort
                     /\ gcDelCalls'[residualPorts[i]] = 1
                     /\ residualPorts[i] \notin gcDeleted'
                     /\ \A j \in (i + 1)..Len(residualPorts) :
                           /\ gcDelCalls'[residualPorts[j]] = 0
                           /\ residualPorts[j] \notin gcDeleted'
                     /\ \A j \in 1..(i - 1) :
                           residualPorts[j] \in lastNoPodOvsPort
                               => residualPorts[j] \in gcDeleted'
         /\ Len(residualPorts) = 0 =>
               /\ ~gcErr'
               /\ lastNoPodOvsPort' = lastNoPodOvsPort
               /\ gcDeleted' = {}]_vars

\* C39 witness: a sweep listed two marked ports and returned an error after
\* one del-port call; nothing was deleted and both ports are still marked.
C39_Witness ==
    /\ gcSweep.pc = "idle"
    /\ gcErr
    /\ gcResidual = InternalPorts
    /\ gcMarkedBefore = InternalPorts
    /\ gcDeleted = {}
    /\ \E p \in InternalPorts : gcDelCalls[p] = 0
    /\ lastNoPodOvsPort = InternalPorts

(***************************************************************************)
(* Uplink bridge migrator: operations                                      *)
(***************************************************************************)

\* the addresses and routes an uplink can carry in this model
ProviderAddrs ==
    { [ip |-> "10.0.0.2", len |-> 24],
      [ip |-> "fd00::2", len |-> 64],
      [ip |-> "fe80::2", len |-> 64] }

ProviderRoutes ==
    { [dst |-> "10.0.0.0/24", gw |-> "", scope |-> "link"],
      [dst |-> "fe80::/64", gw |-> "", scope |-> "link"],
      [dst |-> "192.168.0.0/16", gw |-> "10.0.0.254", scope |-> "site"],
      [dst |-> "0.0.0.0/0", gw |-> "10.0.0.1", scope |-> "universe"],
      [dst |-> "10.0.0.2/32", gw |-> "", scope |-> "host"] }

\* the MAC and MTU of the uplink, and what the bridge has before any call
NicHwaddr == "nic-mac"
BridgeOwnHwaddr == "bridge-mac"
NicMtu == "nic-mtu"
BridgeOwnMtu == "bridge-mtu"

\* the kinds of link an uplink can be: a plain device, a bond in
\* adaptive-load-balancing or in another mode, or a VLAN interface on one of
\* these; the parent of a VLAN interface can be gone when it is looked up
ParentGone == [type |-> "gone", mode |-> ""]
PlainDevice == [type |-> "device", mode |-> "", parent |-> [type |-> "none", mode |-> ""]]
NicLinks ==
    LET ParentLinks == {[type |-> "device", mode |-> ""]}
                         \cup {[type |-> "bond", mode |-> m] : m \in {"balance-alb", "active-backup"}}
    IN  {[type |-> p.type, mode |-> p.mode, parent |-> PlainDevice.parent] : p \in ParentLinks}
          \cup {[type |-> "vlan", mode |-> "", parent |-> p] : p \in ParentLinks \cup {ParentGone}}

\* linkIsAlbBond reporting FALSE for every VLAN interface: the parent of a
\* VLAN interface is not looked at
linkIsAlbBondOwnModeOnly(link) ==
    [albBond |-> link.type = "bond" /\ link.mode = "balance-alb", err |-> FALSE]

\* linkIsAlbBond, lines 1306-1327
linkIsAlbBond(link) ==
    LET check(l) == l.type = "bond" /\ l.mode = "balance-alb"
    IN  IF check(link) THEN [albBond |-> TRUE, err |-> FALSE]
        ELSE IF link.type # "vlan" THEN [albBond |-> FALSE, err |-> FALSE]
        ELSE IF link.parent = ParentGone THEN [albBond |-> FALSE, err |-> TRUE]
        ELSE [albBond |-> check(link.parent), err |-> FALSE]

\* net.IP.IsLinkLocalUnicast: 169.254.0.0/16 and fe80::/10
LinkLocalUnicastIPs == {"fe80::2", "fe80::5", "fe80::", "169.254.0.1"}
IsLinkLocalUnicast(ip) == ip \in LinkLocalUnicastIPs

\* the destination address of a route, without the prefix length
RouteDstIP(r) ==
    CASE r.dst = "10.0.0.0/24" -> "10.0.0.0"
      [] r.dst = "fe80::/64" -> "fe80::"
      [] r.dst = "192.168.0.0/16" -> "192.168.0.0"
      [] r.dst = "0.0.0.0/0" -> "0.0.0.0"
      [] r.dst = "10.0.0.2/32" -> "10.0.0.2"

\* routeScopeOrders of configProviderNic, and scopeOrders of removeProviderNic
routeScopeOrders == <<"link", "site", "universe">>
scopeOrders == <<"host", "link", "site", "universe">>

\* the test of lines 1281 and 1394: a route the replay skips
SkippedRoute(r) == r.gw = "" /\ IsLinkLocalUnicast(RouteDstIP(r))

\* the route loop without its outer loop over the scopes: the routes are
\* replayed in the order of the snapshot, whatever their scope
NextInSnapshotOrder(order, queue, r) == r \in queue

\* whether route r is the next one of the queue under the scope order
NextInOrder(order, queue, r) ==
    /\ r \in queue
    /\ \E i \in 1..Len(order) :
          /\ r.scope = order[i]
          /\ \A j \in 1..(i - 1) : \A q \in queue : q.scope # order[j]

\* the links a call moves from and to
FromLink(op) == IF op = "config" THEN "nic" ELSE "br"
ToLink(op) == IF op = "config" THEN "br" ELSE "nic"
ScopeOrderOf(op) == IF op = "config" THEN routeScopeOrders ELSE scopeOrders

\* the queue of routes a call replays: every route of the snapshot whose scope
\* is in the call's scope order and that the replay does not skip
ReplayQueue(op, routes) ==
    {r \in routes : /\ ~SkippedRoute(r)
                    /\ \E i \in 1..Len(ScopeOrderOf(op)) : r.scope = ScopeOrderOf(op)[i]}

\* the end of a call: the result is recorded and the locals are dropped
Return(result, mtu) ==
    /\ pnPc' = "idle"
    /\ pnResult' = result
    /\ pnMtu' = mtu
    /\ pnAddrs' = {}
    /\ pnRoutes' = {}
    /\ pnQueue' = {}
    /\ pnCur' = "none"

\* configProviderNic, lines 1207-1234: the lookups and the two snapshots
ConfigStart ==
    /\ pnPc = "idle"
    /\ pnOp' = "config"
    /\ pnReplayed' = <<>>
    /\ UNCHANGED <<hwVars, pnRemoveSeen>>
    /\ IF ~nicPresent
       THEN /\ Return("err", 0)
            /\ UNCHANGED <<hwVars, osVars>>
       ELSE /\ brDisableIPv6' = FALSE
            /\ pnPc' = "addr"
            /\ pnAddrs' = linkAddrs["nic"]
            /\ pnRoutes' = {r \in ProviderRoutes : routeDev[r] = "nic"}
            /\ pnQueue' = {}
            /\ pnCur' = "none"
            /\ pnResult' = "none"
            /\ pnMtu' = 0
            /\ UNCHANGED <<hwVars, linkAddrs, routeDev, nicInBridge, brHwaddr, brMtu,
                   brUp, nicUp>>
    /\ UNCHANGED notUplink

\* removeProviderNic with the LinkNotFoundError test of lines 1334-1337 left
\* out: a missing uplink is an error like any other lookup failure
RemoveStartNotFoundIsError ==
    /\ pnPc = "idle"
    /\ pnOp' = "remove"
    /\ pnReplayed' = <<>>
    /\ pnRemoveSeen' = TRUE
    /\ ~nicPresent
    /\ Return("err", 0)
    /\ UNCHANGED <<hwVars, osVars>>
    /\ UNCHANGED notUplink

\* removeProviderNic, lines 1332-1356: the lookups, the snapshots, del-port
RemoveStart ==
    /\ pnPc = "idle"
    /\ pnOp' = "remove"
    /\ pnReplayed' = <<>>
    /\ pnRemoveSeen' = TRUE
    /\ UNCHANGED <<hwVars>>
    /\ IF ~nicPresent
       THEN /\ Return("ok", 0)
            /\ UNCHANGED <<hwVars, osVars>>
       ELSE /\ nicInBridge' = FALSE
            /\ pnPc' = "addr"
            /\ pnAddrs' = linkAddrs["br"]
            /\ pnRoutes' = {r \in ProviderRoutes : routeDev[r] = "br"}
            /\ pnQueue' = {}
            /\ pnCur' = "none"
            /\ pnResult' = "none"
            /\ pnMtu' = 0
            /\ UNCHANGED <<hwVars, linkAddrs, routeDev, brHwaddr, brMtu, brUp, nicUp,
                   brDisableIPv6>>
    /\ UNCHANGED notUplink

\* the address loops (lines 1236-1258 and 1358-1380), one address per step:
\* a link-local address is skipped; AddrDel on the source link comes first
AddrDelStep ==
    /\ pnPc = "addr"
    /\ \E addr \in pnAddrs :
          /\ pnAddrs' = pnAddrs \ {addr}
          /\ IF IsLinkLocalUnicast(addr.ip) \/ addr \notin linkAddrs[FromLink(pnOp)]
             THEN \* continue: skipped, or EADDRNOTAVAIL
                  UNCHANGED <<hwVars, linkAddrs, pnPc, pnCur>>
             ELSE /\ linkAddrs' = [linkAddrs EXCEPT ![FromLink(pnOp)] = @ \ {addr}]
                  /\ pnPc' = "replace"
                  /\ pnCur' = addr
    /\ UNCHANGED <<hwVars, routeDev, nicInBridge, brHwaddr, brMtu, brUp,
                   nicUp, brDisableIPv6, pnOp, pnRoutes, pnQueue, pnResult,
                   pnMtu, pnReplayed, pnRemoveSeen>>
    /\ UNCHANGED notUplink

\* netlink.AddrReplace on the destination link (lines 1255 and 1377)
AddrReplaceStep ==
    /\ pnPc = "replace"
    /\ linkAddrs' = [linkAddrs EXCEPT ![ToLink(pnOp)] = @ \cup {pnCur}]
    /\ pnCur' = "none"
    /\ pnPc' = "addr"
    /\ UNCHANGED <<hwVars, routeDev, nicInBridge, brHwaddr, brMtu, brUp,
                   nicUp, brDisableIPv6, pnOp, pnAddrs, pnRoutes, pnQueue,
                   pnResult, pnMtu, pnReplayed, pnRemoveSeen>>
    /\ UNCHANGED notUplink

\* configProviderNic, lines 1260-1277: MAC unless ALB bond, MTU, bridge up
ConfigLinkStep ==
    /\ pnPc = "addr"
    /\ pnOp = "config"
    /\ pnAddrs = {}
    /\ IF linkIsAlbBond(nicLink).err
       THEN /\ Return("err", 0)
            /\ UNCHANGED <<hwVars, osVars, pnOp, pnReplayed, pnRemoveSeen>>
       ELSE /\ brHwaddr' = IF linkIsAlbBond(nicLink).albBond THEN brHwaddr ELSE NicHwaddr
            /\ brMtu' = NicMtu
            /\ brUp' = TRUE
            /\ pnPc' = "routes"
            /\ pnQueue' = ReplayQueue(pnOp, pnRoutes)
            /\ UNCHANGED <<hwVars, linkAddrs, routeDev, nicInBridge, nicUp,
                   brDisableIPv6, pnOp, pnAddrs, pnRoutes, pnCur, pnResult,
                   pnMtu, pnReplayed, pnRemoveSeen>>
    /\ UNCHANGED notUplink

\* removeProviderNic going on to the routes without setting the bridge down
RemoveLinkStepBridgeStaysUp ==
    /\ pnPc = "addr"
    /\ pnOp = "remove"
    /\ pnAddrs = {}
    /\ pnPc' = "routes"
    /\ pnQueue' = ReplayQueue(pnOp, pnRoutes)
    /\ UNCHANGED <<hwVars, linkAddrs, routeDev, nicInBridge, brHwaddr, brMtu, brUp,
                   nicUp, brDisableIPv6, pnOp, pnAddrs, pnRoutes, pnCur,
                   pnResult, pnMtu, pnReplayed, pnRemoveSeen>>
    /\ UNCHANGED notUplink

\* removeProviderNic, line 1382: bridge down
RemoveLinkStep ==
    /\ pnPc = "addr"
    /\ pnOp = "remove"
    /\ pnAddrs = {}
    /\ brUp' = FALSE
    /\ pnPc' = "routes"
    /\ pnQueue' = ReplayQueue(pnOp, pnRoutes)
    /\ UNCHANGED <<hwVars, linkAddrs, routeDev, nicInBridge, brHwaddr, brMtu,
                   nicUp, brDisableIPv6, pnOp, pnAddrs, pnRoutes, pnCur,
                   pnResult, pnMtu, pnReplayed, pnRemoveSeen>>
    /\ UNCHANGED notUplink

\* the route loops (lines 1279-1292 and 1392-1405), one RouteReplace per step
RouteReplaceStep ==
    /\ pnPc = "routes"
    /\ \E route \in pnQueue :
          /\ NextInOrder(ScopeOrderOf(pnOp), pnQueue, route)
          /\ routeDev' = [routeDev EXCEPT ![route] = ToLink(pnOp)]
          /\ pnQueue' = pnQueue \ {route}
          /\ pnReplayed' = Append(pnReplayed, route)
    /\ UNCHANGED <<hwVars, linkAddrs, nicInBridge, brHwaddr, brMtu, brUp,
                   nicUp, brDisableIPv6, pnOp, pnPc, pnAddrs, pnRoutes,
                   pnCur, pnResult, pnMtu, pnRemoveSeen>>
    /\ UNCHANGED notUplink

\* configProviderNic adding the uplink to the bridge as soon as the
\* addresses are moved, before the bridge is set up and the routes replayed
ConfigAddPortBeforeRoutes ==
    /\ pnPc = "addr"
    /\ pnOp = "config"
    /\ pnAddrs = {}
    /\ nicInBridge' = TRUE
    /\ pnPc' = "up"
    /\ UNCHANGED <<hwVars, linkAddrs, routeDev, brHwaddr, brMtu, brUp, nicUp,
                   brDisableIPv6, pnOp, pnAddrs, pnRoutes, pnQueue, pnCur,
                   pnResult, pnMtu, pnReplayed, pnRemoveSeen>>
    /\ UNCHANGED notUplink

\* configProviderNic, lines 1294-1297: add-port of the uplink, after the
\* last route
ConfigAddPort ==
    /\ pnPc = "routes"
    /\ pnOp = "config"
    /\ pnQueue = {}
    /\ nicInBridge' = TRUE
    /\ pnPc' = "up"
    /\ UNCHANGED <<hwVars, linkAddrs, routeDev, brHwaddr, brMtu, brUp, nicUp,
                   brDisableIPv6, pnOp, pnAddrs, pnRoutes, pnQueue, pnCur,
                   pnResult, pnMtu, pnReplayed, pnRemoveSeen>>
    /\ UNCHANGED notUplink

\* configProviderNic, lines 1299-1303: uplink up, return the MTU
ConfigFinish ==
    /\ pnPc = "up"
    /\ nicUp' = TRUE
    /\ Return("ok", NicMtu)
    /\ UNCHANGED <<hwVars, linkAddrs, routeDev, nicInBridge, brHwaddr, brMtu, brUp,
                   brDisableIPv6, pnOp, pnReplayed, pnRemoveSeen>>
    /\ UNCHANGED notUplink

\* removeProviderNic, line 1407
RemoveFinish ==
    /\ pnPc = "routes"
    /\ pnOp = "remove"
    /\ pnQueue = {}
    /\ Return("ok", 0)
    /\ UNCHANGED <<hwVars, osVars, pnOp, pnReplayed, pnRemoveSeen>>
    /\ UNCHANGED notUplink

\* the OS or the switch refuses the call the handler is about to make: every
\* such call of the two handlers is followed by "return ... err"
StepFails ==
    /\ pnPc # "idle"
    /\ Return("err", 0)
    /\ UNCHANGED <<hwVars, osVars, pnOp, pnReplayed, pnRemoveSeen>>
    /\ UNCHANGED notUplink

\* the process stops in the middle of a call
ProcessStops ==
    /\ pnPc # "idle"
    /\ Return("stopped", 0)
    /\ UNCHANGED <<hwVars, osVars, pnOp, pnReplayed, pnRemoveSeen>>
    /\ UNCHANGED notUplink

\* the kernel gives the bridge its own link-local address and route once the
\* bridge is up with IPv6 enabled: the address that AddrList of line 1345 and
\* the route that RouteList of line 1349 find on the bridge. A host-scope
\* route to an address of the bridge can be put on the bridge in the same way.
BridgeLinkLocalRoute ==
    /\ brUp
    /\ ~brDisableIPv6
    /\ \E route \in ProviderRoutes :
          /\ \/ SkippedRoute(route)
             \/ route.scope = "host" /\ \E a \in linkAddrs["br"] : a.ip = RouteDstIP(route)
          /\ routeDev[route] = "none"
          /\ routeDev' = [routeDev EXCEPT ![route] = "br"]
          /\ linkAddrs' = IF SkippedRoute(route)
                          THEN [linkAddrs EXCEPT !["br"] = @ \cup {[ip |-> "fe80::2", len |-> 64]}]
                          ELSE linkAddrs
    /\ UNCHANGED <<hwVars, nicInBridge, brHwaddr, brMtu, brUp,
                   nicUp, brDisableIPv6, pnOp, pnPc, pnAddrs, pnRoutes,
                   pnQueue, pnCur, pnResult, pnMtu, pnReplayed, pnRemoveSeen>>
    /\ UNCHANGED notUplink

UplinkQuiet ==
    /\ nicInBridge = FALSE
    /\ brHwaddr = BridgeOwnHwaddr
    /\ brMtu = BridgeOwnMtu
    /\ brUp = FALSE
    /\ brDisableIPv6 = TRUE
    /\ pnOp = "none"
    /\ pnPc = "idle"
    /\ pnAddrs = {}
    /\ pnRoutes = {}
    /\ pnQueue = {}
    /\ pnCur = "none"
    /\ pnResult = "none"
    /\ pnMtu = 0
    /\ pnReplayed = <<>>
    /\ pnRemoveSeen = FALSE

\* an uplink with some addresses and routes, or no uplink at all; a plain
\* device may be down
UplinkInit ==
    /\ UplinkQuiet
    /\ nicPresent \in BOOLEAN
    /\ nicLink \in NicLinks
    /\ nicUp \in (IF nicPresent /\ nicLink = PlainDevice THEN BOOLEAN ELSE {TRUE})
    /\ origAddrs \in SUBSET ProviderAddrs
    /\ origRoutes \in SUBSET ProviderRoutes
    /\ nicPresent \/ (origAddrs = {} /\ origRoutes = {} /\ nicLink = PlainDevice)
    /\ linkAddrs = [l \in {"nic", "br"} |-> IF l = "nic" THEN origAddrs ELSE {}]
    /\ routeDev = [r \in ProviderRoutes |-> IF r \in origRoutes THEN "nic" ELSE "none"]

\* the other specifications leave the uplink alone, with no uplink configured
UplinkUnused ==
    /\ UplinkQuiet
    /\ nicUp = TRUE
    /\ nicPresent = FALSE
    /\ nicLink = PlainDevice
    /\ origAddrs = {}
    /\ origRoutes = {}
    /\ linkAddrs = [l \in {"nic", "br"} |-> {}]
    /\ routeDev = [r \in ProviderRoutes |-> "none"]

UplinkNext ==
    \/ ConfigStart
    \/ RemoveStart
    \/ AddrDelStep
    \/ AddrReplaceStep
    \/ ConfigLinkStep
    \/ RemoveLinkStep
    \/ RouteReplaceStep
    \/ ConfigAddPort
    \/ ConfigFinish
    \/ RemoveFinish
    \/ StepFails
    \/ ProcessStops
    \/ BridgeLinkLocalRoute

(***************************************************************************)
(* Uplink bridge migrator: claims                                          *)
(***************************************************************************)

\* the addresses and routes of the start that uplink attach has to move
MovableAddrs == {a \in origAddrs : ~IsLinkLocalUnicast(a.ip)}
ReplayableRoutes == ReplayQueue("config", origRoutes)

\* C5: while only uplink attach has run, every non-link-local address of the
\* uplink is on the uplink or on the bridge in every reachable state, the
\* states in the middle of a call and after a failed step included.
C5_AddressNeverOnNeither ==
    ~pnRemoveSeen =>
        \A a \in MovableAddrs : a \in linkAddrs["nic"] \/ a \in linkAddrs["br"]

\* C10: while only uplink attach has run, whatever calls failed or were
\* stopped before, a call of configProviderNic that runs to its end leaves
\* every non-link-local address and every replayable route of the uplink on
\* the bridge, and the uplink a port of the bridge.
C10_RestartSafe ==
    (~pnRemoveSeen /\ pnOp = "config" /\ pnResult = "ok") =>
        /\ \A a \in MovableAddrs : a \in linkAddrs["br"]
        /\ \A r \in ReplayableRoutes : routeDev[r] = "br"
        /\ nicInBridge

\* the place of a scope in the order link, site, universe (host before all)
ScopeRank(scope) ==
    CASE scope = "host" -> 0
      [] scope = "link" -> 1
      [] scope = "site" -> 2
      [] scope = "universe" -> 3

\* C15: the routes that uplink attach has replayed so far are in scope order,
\* every link-scope route before any site-scope route and every site-scope
\* route before any universe-scope route; and neither attach nor detach ever
\* replays a route with no gateway whose destination is link-local.
C15_ReplayInScopeOrder ==
    /\ pnOp = "config" =>
          \A i, j \in 1..Len(pnReplayed) :
              i < j => ScopeRank(pnReplayed[i].scope) <= ScopeRank(pnReplayed[j].scope)
    /\ \A i \in 1..Len(pnReplayed) :
          ~(pnReplayed[i].gw = "" /\ IsLinkLocalUnicast(RouteDstIP(pnReplayed[i])))

\* C15 witness: an attach has replayed a link, a site and a universe route
\* from a snapshot that also held a link-local route with no gateway.
C15_Witness ==
    /\ pnOp = "config"
    /\ pnPc = "routes"
    /\ pnQueue = {}
    /\ Len(pnReplayed) = 3
    /\ \E r \in pnRoutes : r.gw = "" /\ IsLinkLocalUnicast(RouteDstIP(r))

\* a bond in adaptive-load-balancing mode, or a VLAN interface on such a bond
AlbBondOrItsVlan(link) ==
    \/ link.type = "bond" /\ link.mode = "balance-alb"
    \/ link.type = "vlan" /\ link.parent.type = "bond" /\ link.parent.mode = "balance-alb"

\* C16: configProviderNic sets the bridge MAC to the MAC of the uplink if and
\* only if the uplink is neither a bond in adaptive-load-balancing mode nor a
\* VLAN interface on such a bond: for such an uplink the bridge keeps the MAC
\* it had, and for any other uplink the bridge has the MAC of the uplink as
\* soon as the call is past that step.
C16_BondedMacException ==
    /\ AlbBondOrItsVlan(nicLink) => brHwaddr = BridgeOwnHwaddr
    /\ (~AlbBondOrItsVlan(nicLink) /\ pnOp = "config" /\ (pnPc \in {"routes", "up"} \/ pnResult = "ok"))
          => brHwaddr = NicHwaddr

\* C16 witness: configProviderNic has returned success for a VLAN interface on
\* a bond in adaptive-load-balancing mode, and the bridge has its own MAC.
C16_Witness ==
    /\ nicLink.type = "vlan"
    /\ AlbBondOrItsVlan(nicLink)
    /\ pnOp = "config"
    /\ pnPc = "idle"
    /\ pnResult = "ok"
    /\ nicInBridge
    /\ brHwaddr = BridgeOwnHwaddr

C30_AddPortAfterMoveUpLast ==
    [][/\ ((nicInBridge' /\ ~nicInBridge) \/ (pnPc' = "up" /\ pnPc # "up")) =>
            /\ pnOp = "config"
            /\ pnPc = "routes"
            /\ \A a \in linkAddrs["nic"] : IsLinkLocalUnicast(a.ip)
            /\ brMtu = NicMtu
            /\ linkIsAlbBond(nicLink).albBond \/ brHwaddr = NicHwaddr
            /\ brUp
            /\ \A r \in ReplayQueue("config", pnRoutes) : routeDev[r] = "br"
            /\ nicUp' = nicUp
       /\ nicUp' # nicUp =>
            /\ pnOp = "config"
            /\ pnPc = "up"
            /\ nicInBridge
            /\ nicUp'
            /\ pnPc' = "idle"
            /\ pnResult' = "ok"
       /\ (pnOp = "config" /\ pnPc # "idle" /\ pnResult' = "err") =>
            nicInBridge' = nicInBridge]_vars

\* C30 witness: an attach has added the uplink to the bridge after it moved
\* an address and replayed two routes onto the bridge, which is up, and the
\* uplink is still down.
C30_Witness ==
    /\ pnOp = "config"
    /\ pnPc = "up"
    /\ nicInBridge
    /\ ~nicUp
    /\ brUp
    /\ Len(pnReplayed) >= 2
    /\ [ip |-> "10.0.0.2", len |-> 24] \in linkAddrs["br"]

Chars(ch, n) == [i \in 1..n |-> ch]

\* container identities (64 hexadecimal characters in the runtime; 13 here)
ContainerIDs == {Chars("a", 13), Chars("b", 13)}

\* the container that Spec follows through every variant of its requests
RequestContainers == {Chars("a", 13)}

\* the one pod of the model and its logical-port id
PodName == "pod"

\* the pods of the node
Pods == {PodName, "pod2"}
PodNamespace == "ns"

\* the providers of the interfaces of a pod: the default network, and an
\* attachment network named as in line 491
Providers == {"ovn", "net1.ns.ovn"}

\* ovs.PodNameToPortName
PodNameToPortName(podName, podNamespace, provider) == <<podName, podNamespace, provider>>

\* generateNicName, lines 876-881, on nicNames held as character sequences
generateNicName(containerID, ifname) ==
    IF ifname = <<"e", "t", "h", "0">>
    THEN << SubSeq(containerID, 1, 12) \o <<"_", "h">>,
            SubSeq(containerID, 1, 12) \o <<"_", "c">> >>
    ELSE << SubSeq(containerID, 1, 12 - Len(ifname)) \o <<"_">> \o ifname \o <<"_", "h">>,
            SubSeq(containerID, 1, 12 - Len(ifname)) \o <<"_">> \o ifname \o <<"_", "c">> >>

Eth0 == <<"e", "t", "h", "0">>

\* the slice expressions of generateNicName are within the string; outside
\* it the Go runtime panics (slice bounds out of range)
SlicesInRange(containerID, ifname) ==
    IF ifname = Eth0 THEN 12 <= Len(containerID)
    ELSE 0 <= 12 - Len(ifname) /\ 12 - Len(ifname) <= Len(containerID)

\* a call of generateNicName: the two nicNames, or the panic
NicNameCall(containerID, ifname) ==
    IF SlicesInRange(containerID, ifname)
    THEN [panic |-> FALSE, host |-> generateNicName(containerID, ifname)[1],
          container |-> generateNicName(containerID, ifname)[2]]
    ELSE [panic |-> TRUE, host |-> <<>>, container |-> <<>>]

\* container identities and interface nicNames given to generateNicName alone
NameContainerIDs ==
    { Chars("a", 13), Chars("b", 13), Chars("a", 12), Chars("a", 11) \o <<"b", "a">> }

NameIfNames ==
    { Eth0, <<"n", "e", "t", "1">>, <<"n", "e", "t", "2">>, <<"e", "t", "h", "1">>,
      <<"1">>, <<"t", "1">>, <<"h">>, <<"c">>, <<"a">>, <<"a", "a">>, <<>>,
      Chars("n", 12), Chars("n", 13), Chars("n", 15) }

NoNames == [called |-> FALSE, containerID |-> <<>>, ifname1 |-> <<>>, ifname2 |-> <<>>,
            r1 |-> NicNameCall(Chars("a", 12), Eth0), r2 |-> NicNameCall(Chars("a", 12), Eth0)]

\* generateNicName is called for both interface nicNames
NamesCall ==
    /\ ~nicNames.called
    /\ nicNames' = [nicNames EXCEPT !.called = TRUE,
                              !.r1 = NicNameCall(nicNames.containerID, nicNames.ifname1),
                              !.r2 = NicNameCall(nicNames.containerID, nicNames.ifname2)]
    /\ UNCHANGED <<nic, ovn0, lastCall, probing>>
    /\ UNCHANGED notNic

\* addresses: the IP, the prefix length and the width of the family
V4a == [ip |-> "10.0.0.5", len |-> 24, bits |-> 32]
V4b == [ip |-> "10.0.0.6", len |-> 24, bits |-> 32]
V6a == [ip |-> "fd00::5", len |-> 64, bits |-> 128]
V6LinkLocal == [ip |-> "fe80::5", len |-> 64, bits |-> 128]
Gw4 == [ip |-> "10.0.0.1", bits |-> 32]
Gw6 == [ip |-> "fd00::1", bits |-> 128]

\* the ip and gateway arguments of the calls: comma-joined lists, held as
\* sequences; a dual-stack request lists IPv4 first
IpGatewayChoices ==
    { [ip |-> <<V4a>>, gateway |-> <<Gw4>>],
      [ip |-> <<V6a>>, gateway |-> <<Gw6>>],
      [ip |-> <<V4a, V6a>>, gateway |-> <<Gw4, Gw6>>] }

\* gwCheckMode values
gatewayModeDisabled == "disabled"
gatewayCheckModePing == "ping"
gatewayCheckModeArping == "arping"
GwCheckModes == {gatewayModeDisabled, gatewayCheckModePing, gatewayCheckModeArping}

\* the retry bound of the probes (200 in the runtime)
gatewayCheckMaxRetry == 2

\* util.CheckProtocol of a comma-joined address list
CheckProtocol(ips) ==
    IF Len(ips) = 2
    THEN IF ips[1].bits # ips[2].bits THEN "Dual" ELSE ""
    ELSE IF ips[1].bits = 32 THEN "IPv4" ELSE "IPv6"

(***************************************************************************)
(* configureNic (lines 1141-1202): address reconciliation                  *)
(***************************************************************************)

HexDigitOfOnes == <<"0", "8", "c", "e", "f">>
DecDigits == <<"0", "1", "2", "3", "4", "5", "6", "7", "8", "9">>

Min(a, b) == IF a < b THEN a ELSE b
Max(a, b) == IF a > b THEN a ELSE b

\* net.IPMask.String: the mask in hexadecimal, no punctuation
MaskString(len, bits) ==
    [i \in 1..(bits \div 4) |-> HexDigitOfOnes[Max(0, Min(4, len - 4 * (i - 1))) + 1]]

\* the decimal text of a prefix length, as it stands in "10.0.0.5/24"
DecString(n) ==
    IF n < 10 THEN <<DecDigits[n + 1]>>
    ELSE IF n < 100 THEN <<DecDigits[(n \div 10) + 1], DecDigits[(n % 10) + 1]>>
    ELSE <<DecDigits[(n \div 100) + 1], DecDigits[((n \div 10) % 10) + 1],
           DecDigits[(n % 10) + 1]>>

\* line 1158: the key under which an address of the link goes into ipDelMap
KernelAddrKey(a) == [ip |-> a.ip, afterSlash |-> MaskString(a.len, a.bits)]

\* the key ipStr of the request: the text "ip/len" itself
RequestAddrKey(r) == [ip |-> r.ip, afterSlash |-> DecString(r.len)]

\* the first loop of configureNic without the test of line 1154
InitialDelMapWithLinkLocal(current) == current

\* lines 1153-1159
InitialDelMap(current) == {a \in current : ~IsLinkLocalUnicast(a.ip)}

\* lines 1161-1173: ipDelMap and ipAddMap after the first i requested addresses
RECURSIVE Reconcile(_, _, _)
Reconcile(current, ips, i) ==
    IF i = 0
    THEN [del |-> InitialDelMap(current), add |-> {}]
    ELSE LET m == Reconcile(current, ips, i - 1)
             hit == {a \in m.del : KernelAddrKey(a) = RequestAddrKey(ips[i])}
         IN  IF hit # {}
             THEN [del |-> m.del \ hit, add |-> m.add]
             ELSE [del |-> m.del, add |-> m.add \cup {[ip |-> ips[i].ip, len |-> ips[i].len,
                                                        bits |-> ips[i].bits]}]

\* the set of the entries of a sequence
Range(seq) == {seq[i] : i \in 1..Len(seq)}

\* a sequence holding the elements of a set, each once (map iteration order)
SeqOf(S) == CHOOSE f \in [1..Cardinality(S) -> S] : Range(f) = S

OpRecord(op, link, a) == [op |-> op, link |-> link, arg |-> a]

\* configureNic on a link with the addresses current: the addresses after the
\* call, the netlink calls made, and the error ("" when none). AddrAdd of an
\* address the link already has is refused (EEXIST).
configureNic(link, current, ips) ==
    LET m == Reconcile(current, ips, Len(ips))
        dels == SeqOf(m.del)
        adds == SeqOf(m.add)
        afterDel == current \ m.del
        clash == m.add \cap afterDel
    IN  [ addrs |-> IF clash = {} THEN afterDel \cup m.add ELSE afterDel,
          ops |-> [i \in 1..Len(dels) |-> OpRecord("AddrDel", link, dels[i])]
                  \o [i \in 1..Len(adds) |-> OpRecord("AddrAdd", link, adds[i])]
                  \o (IF clash = {} THEN <<OpRecord("LinkSetHardwareAddr", link, [none |-> TRUE]),
                                           OpRecord("LinkSetUp", link, [none |-> TRUE])>>
                      ELSE <<>>),
          err |-> IF clash = {} THEN "" ELSE "can not add address" ]

(***************************************************************************)
(* Pod NIC handlers: operations                                            *)
(***************************************************************************)

HostNicNames == {generateNicName(c, Eth0)[1] : c \in ContainerIDs}

\* the container end of the pair whose host end is h
PeerName(h) == SubSeq(h, 1, Len(h) - 1) \o <<"c">>

\* nicType values
VethType == "veth-pair"
InternalType == "internal-port"

\* DeviceID values: none, a PCI address, a text that is no PCI address
PciDeviceID == "0000:01:00.1"
DeviceIDs == {"", PciDeviceID, "vf1"}
pciAddrRegexpMatch(deviceID) == deviceID = PciDeviceID

\* what a handler threads through its steps: the devices and the switch, the
\* error ("" while none), the calls made so far, the NIC names the device
\* provisioner returned (empty while none)
Run(w) == [w |-> w, err |-> "", ops |-> <<>>, hostNicName |-> <<>>, containerNicName |-> <<>>]
NoArg == [none |-> TRUE]
Did(run, op, link, a) == Append(run.ops, OpRecord(op, link, a))

\* netlink.LinkByName in the host namespace: the pair the name belongs to, if
\* a link of that name is there. veth[h] is "none" (no pair), "host" (both
\* ends in the host namespace), "moved" (container end in the pod's namespace
\* under its first name) or "renamed" (container end in the pod's namespace
\* under the interface name).
HostPairsNamed(w, name) ==
    {h \in HostNicNames : \/ name = h /\ w.veth[h] # "none"
                          \/ name = PeerName(h) /\ w.veth[h] = "host"}

\* netlink.LinkDel of one end of a pair: both ends go, with what they carried
LinkDelPair(w, h) ==
    [w EXCEPT !.veth[h] = "none", !.addrs[h] = {}, !.routes[h] = {}]

\* setupVethPair returning the error of LinkAdd without the LinkDel of
\* lines 1421-1424
setupVethPairWithoutLinkDel(run, containerID, ifName, fault) ==
    LET h == generateNicName(containerID, ifName)[1]
        c == generateNicName(containerID, ifName)[2]
        made == [run EXCEPT !.w.veth[h] = "host", !.ops = Did(run, "LinkAdd", h, NoArg)]
    IN  IF HostPairsNamed(run.w, h) = {} /\ HostPairsNamed(run.w, c) = {} /\ run.w.rep # h
        THEN IF fault = "veth" THEN [made EXCEPT !.err = "failed to create veth"]
             ELSE [made EXCEPT !.hostNicName = h, !.containerNicName = c]
        ELSE [run EXCEPT !.err = "failed to create veth"]

\* setupVethPair, lines 1410-1429. LinkAdd is refused when a link has one of
\* the two names; the fault "veth" is LinkAdd reporting an error after the
\* kernel made the pair. A call that failed is logged with the argument
\* failed.
setupVethPair(run, containerID, ifName, fault) ==
    LET h == generateNicName(containerID, ifName)[1]
        c == generateNicName(containerID, ifName)[2]
        made == [run EXCEPT !.w.veth[h] = "host", !.ops = Did(run, "LinkAdd", h, NoArg)]
    IN  IF HostPairsNamed(run.w, h) = {} /\ HostPairsNamed(run.w, c) = {} /\ run.w.rep # h
        THEN IF fault = "veth"
             THEN [made EXCEPT !.w = LinkDelPair(@, h), !.err = "failed to create veth",
                               !.ops = Append(@, OpRecord("LinkDel", h, NoArg))]
             ELSE [made EXCEPT !.hostNicName = h, !.containerNicName = c]
        ELSE \* LinkAdd is refused; LinkDel finds the link by the name (a
             \* representor of the name is no link that LinkDel can delete)
             IF HostPairsNamed(run.w, h) # {}
             THEN [run EXCEPT !.w = LinkDelPair(@, h), !.err = "failed to create veth",
                              !.ops = Did(run, "LinkDel", h, NoArg)]
             ELSE [run EXCEPT !.err = "failed to delete veth",
                              !.ops = Did(run, "LinkDel", h, [failed |-> TRUE])]

\* ovs.CleanDuplicatePort: the ports tagged with the logical-port id under
\* another device name go
CleanDuplicatePort(ports, ifaceID, hostNicName) ==
    {p \in ports : ~(p.ifaceID = ifaceID /\ p.name # hostNicName)}

\* lines 771-779: add-port --may-exist, then set the tags of the interface
AddPortMayExist(ports, hostNicName, ifaceID) ==
    {p \in ports : p.name # hostNicName} \cup {[name |-> hostNicName, ifaceID |-> ifaceID]}

\* a mutation of DefaultRoutes: the IPv6 default route of a dual-stack request
\* is not installed
DefaultRoutesV4Only(ips, gateway, isDefaultRoute) ==
    IF ~isDefaultRoute THEN <<>>
    ELSE IF CheckProtocol(ips) = "IPv4" THEN <<[dst |-> "0.0.0.0/0", gw |-> gateway[1].ip]>>
    ELSE IF CheckProtocol(ips) = "IPv6" THEN <<[dst |-> "::/0", gw |-> gateway[1].ip]>>
    ELSE IF CheckProtocol(ips) = "Dual"
         THEN <<[dst |-> "0.0.0.0/0", gw |-> gateway[1].ip]>>
    ELSE <<>>

\* lines 956-1000: the default routes installed for an address list
DefaultRoutes(ips, gateway, isDefaultRoute) ==
    IF ~isDefaultRoute THEN <<>>
    ELSE IF CheckProtocol(ips) = "IPv4" THEN <<[dst |-> "0.0.0.0/0", gw |-> gateway[1].ip]>>
    ELSE IF CheckProtocol(ips) = "IPv6" THEN <<[dst |-> "::/0", gw |-> gateway[1].ip]>>
    ELSE IF CheckProtocol(ips) = "Dual"
         THEN <<[dst |-> "0.0.0.0/0", gw |-> gateway[1].ip],
                [dst |-> "::/0", gw |-> gateway[2].ip]>>
    ELSE <<>>

\* netlink.RouteReplace on a routing table: the route to the destination is
\* the given one afterwards
RouteReplace(table, r) == {x \in table : x.dst # r.dst} \cup {r}

RECURSIVE RouteReplaceAll(_, _, _)
RouteReplaceAll(table, rs, i) ==
    IF i = 0 THEN table ELSE RouteReplace(RouteReplaceAll(table, rs, i - 1), rs[i])

\* util.Arping and pingGateway: probes are sent until an answer or until
\* the retry bound; firstAnswer is the probe the gateway would answer
ProbeGateway(firstAnswer, maxRetry) ==
    [ok |-> firstAnswer <= maxRetry, count |-> Min(firstAnswer, maxRetry)]

\* what the gateways do: the probe each would answer first
GatewayAnswers == [{Gw4.ip, Gw6.ip} -> {1, gatewayCheckMaxRetry + 1}]

\* no gateway is asked anything
QuietGateways == [g \in {Gw4.ip, Gw6.ip} |-> 1]

\* waitNetworkReady, lines 1039-1062: the error and the probes made for the
\* first i gateways
RECURSIVE waitNetworkReadyLoop(_, _, _, _, _, _)
waitNetworkReadyLoop(nicName, ips, gateway, underlayGateway, answers, i) ==
    IF i = 0 THEN [err |-> "", ops |-> <<>>]
    ELSE LET before == waitNetworkReadyLoop(nicName, ips, gateway, underlayGateway, answers, i - 1)
             gw == gateway[i]
             src == ips[i].ip
             probe == ProbeGateway(answers[gw.ip], gatewayCheckMaxRetry)
             kind == IF underlayGateway /\ gw.bits = 32 THEN "Arping" ELSE "pingGateway"
         IN  IF before.err # "" THEN before
             ELSE [ err |-> IF probe.ok THEN "" ELSE "network is not ready",
                    ops |-> Append(before.ops,
                                   OpRecord(kind, nicName,
                                            [gw |-> gw.ip, src |-> src, count |-> probe.count])) ]

\* a mutation of waitNetworkReady: the error of a failed probe is dropped
waitNetworkReadyDroppingError(nicName, ips, gateway, underlayGateway, answers) ==
    [waitNetworkReadyLoop(nicName, ips, gateway, underlayGateway, answers, Len(gateway))
        EXCEPT !.err = ""]

waitNetworkReady(nicName, ips, gateway, underlayGateway, answers) ==
    waitNetworkReadyLoop(nicName, ips, gateway, underlayGateway, answers, Len(gateway))

\* the loop of lines 1002-1025 stopping at the first entry it cannot parse
RECURSIVE addStaticRoutesUntilBad(_, _, _, _)
addStaticRoutesUntilBad(table, nicName, routes, i) ==
    IF i = 0 THEN [table |-> table, ops |-> <<>>, bad |-> FALSE]
    ELSE LET before == addStaticRoutesUntilBad(table, nicName, routes, i - 1)
             r == routes[i]
             ParseCIDR(d) == d \in {"192.168.0.0/16", "172.16.0.0/12", "10.8.0.0/16"}
             ParseIP(g) == g \in {Gw4.ip, Gw6.ip, "203.0.113.1"}
             onLink(g) == g \in {Gw4.ip, Gw6.ip}
         IN  IF before.bad THEN before
             ELSE IF ~ParseCIDR(r.dst) \/ (r.gw # "" /\ ~ParseIP(r.gw))
             THEN [before EXCEPT !.bad = TRUE]
             ELSE IF r.gw # "" /\ ~onLink(r.gw)
             THEN [before EXCEPT !.ops = Append(@, OpRecord("RouteReplace", nicName,
                                                            [dst |-> r.dst, gw |-> r.gw, failed |-> TRUE]))]
             ELSE [before EXCEPT !.table = RouteReplace(@, r),
                                 !.ops = Append(@, OpRecord("RouteReplace", nicName, r))]

\* the loop over the static routes of the request, lines 1002-1025, for the
\* first i entries: an entry whose destination is no CIDR or whose gateway
\* is no IP is skipped; RouteReplace is called for the others, and the
\* kernel refuses a route whose gateway is not on a connected network (the
\* error is logged, the loop goes on). bad is not used by the loop.
RECURSIVE addStaticRoutes(_, _, _, _)
addStaticRoutes(table, nicName, routes, i) ==
    IF i = 0 THEN [table |-> table, ops |-> <<>>, bad |-> FALSE]
    ELSE LET before == addStaticRoutes(table, nicName, routes, i - 1)
             r == routes[i]
             ParseCIDR(d) == d \in {"192.168.0.0/16", "172.16.0.0/12", "10.8.0.0/16"}
             ParseIP(g) == g \in {Gw4.ip, Gw6.ip, "203.0.113.1"}
             onLink(g) == g \in {Gw4.ip, Gw6.ip}
         IN  IF ~ParseCIDR(r.dst) \/ (r.gw # "" /\ ~ParseIP(r.gw))
             THEN before
             ELSE IF r.gw # "" /\ ~onLink(r.gw)
             THEN [before EXCEPT !.ops = Append(@, OpRecord("RouteReplace", nicName,
                                                            [dst |-> r.dst, gw |-> r.gw, failed |-> TRUE]))]
             ELSE [before EXCEPT !.table = RouteReplace(@, r),
                                 !.ops = Append(@, OpRecord("RouteReplace", nicName, r))]

\* configureContainerNic renaming the link before it moves it
configureContainerNicRenameFirst(run, h, ifName, ips, gateway, isDefaultRoute, routes, gwCheckMode, answers) ==
    LET inNetNS(conf, defaults, extra, ready) ==
            LET moved == run.ops \o <<OpRecord("LinkSetAlias", PeerName(h), NoArg),
                                     OpRecord("LinkSetName", ifName, NoArg),
                                     OpRecord("LinkSetNsFd", PeerName(h), NoArg),
                                     OpRecord("WithNetNSPath", "pod", NoArg)>> \o conf.ops
                routed == moved \o [i \in 1..Len(defaults) |->
                                       OpRecord("RouteReplace", ifName, defaults[i])] \o extra.ops
                w1 == [run.w EXCEPT !.veth[h] = "renamed", !.addrs[h] = conf.addrs]
                w2 == [w1 EXCEPT !.routes[h] = extra.table]
            IN  IF conf.err # ""
                THEN [run EXCEPT !.w = w1, !.err = conf.err, !.ops = moved]
                ELSE IF gwCheckMode # gatewayModeDisabled
                THEN [run EXCEPT !.w = w2, !.err = ready.err, !.ops = routed \o ready.ops]
                ELSE [run EXCEPT !.w = w2, !.err = "", !.ops = routed]
        withRoutes(conf, defaults) ==
            inNetNS(conf, defaults,
                    addStaticRoutes(RouteReplaceAll(run.w.routes[h], defaults, Len(defaults)),
                                    ifName, routes, Len(routes)),
                    waitNetworkReady(ifName, ips, gateway,
                                     gwCheckMode = gatewayCheckModeArping, answers))
        WithNetNSPath(inside) ==
            [inside EXCEPT !.ops = Append(@, OpRecord("RestoreNetNS", "host", NoArg))]
    IN  IF run.w.veth[h] # "host"
        THEN [run EXCEPT !.err = "can not find container nic"]
        ELSE WithNetNSPath(withRoutes(configureNic(ifName, run.w.addrs[h], ips),
                                      DefaultRoutes(ips, gateway, isDefaultRoute)))

\* configureContainerNic returning an error of a step in the namespace
\* without the way back to the namespace of the caller
configureContainerNicNoRestoreOnError(run, h, ifName, ips, gateway, isDefaultRoute, routes, gwCheckMode, answers) ==
    LET inNetNS(conf, defaults, extra, ready) ==
            LET moved == run.ops \o <<OpRecord("LinkSetAlias", PeerName(h), NoArg),
                                     OpRecord("LinkSetNsFd", PeerName(h), NoArg),
                                     OpRecord("WithNetNSPath", "pod", NoArg),
                                     OpRecord("LinkSetName", ifName, NoArg)>> \o conf.ops
                routed == moved \o [i \in 1..Len(defaults) |->
                                       OpRecord("RouteReplace", ifName, defaults[i])] \o extra.ops
                w1 == [run.w EXCEPT !.veth[h] = "renamed", !.addrs[h] = conf.addrs]
                w2 == [w1 EXCEPT !.routes[h] = extra.table]
            IN  IF conf.err # ""
                THEN [run EXCEPT !.w = w1, !.err = conf.err, !.ops = moved]
                ELSE IF gwCheckMode # gatewayModeDisabled
                THEN [run EXCEPT !.w = w2, !.err = ready.err, !.ops = routed \o ready.ops]
                ELSE [run EXCEPT !.w = w2, !.err = "", !.ops = routed]
        withRoutes(conf, defaults) ==
            inNetNS(conf, defaults,
                    addStaticRoutes(RouteReplaceAll(run.w.routes[h], defaults, Len(defaults)),
                                    ifName, routes, Len(routes)),
                    waitNetworkReady(ifName, ips, gateway,
                                     gwCheckMode = gatewayCheckModeArping, answers))
        WithNetNSPath(inside) ==
            IF inside.err # "" THEN inside
            ELSE [inside EXCEPT !.ops = Append(@, OpRecord("RestoreNetNS", "host", NoArg))]
    IN  IF run.w.veth[h] # "host"
        THEN [run EXCEPT !.err = "can not find container nic"]
        ELSE WithNetNSPath(withRoutes(configureNic(ifName, run.w.addrs[h], ips),
                                      DefaultRoutes(ips, gateway, isDefaultRoute)))

\* configureContainerNic, lines 901-1037, for a nicType other than internal.
\* ns.WithNetNSPath (line 917) runs the steps of lines 919-1036 in the
\* namespace of the pod and sets the namespace of the caller again when they
\* return, with or without an error.
configureContainerNic(run, h, ifName, ips, gateway, isDefaultRoute, routes, gwCheckMode, answers) ==
    LET inNetNS(conf, defaults, extra, ready) ==
            LET moved == run.ops \o <<OpRecord("LinkSetAlias", PeerName(h), NoArg),
                                     OpRecord("LinkSetNsFd", PeerName(h), NoArg),
                                     OpRecord("WithNetNSPath", "pod", NoArg),
                                     OpRecord("LinkSetName", ifName, NoArg)>> \o conf.ops
                routed == moved \o [i \in 1..Len(defaults) |->
                                       OpRecord("RouteReplace", ifName, defaults[i])] \o extra.ops
                w1 == [run.w EXCEPT !.veth[h] = "renamed", !.addrs[h] = conf.addrs]
                w2 == [w1 EXCEPT !.routes[h] = extra.table]
            IN  IF conf.err # ""
                THEN [run EXCEPT !.w = w1, !.err = conf.err, !.ops = moved]
                ELSE IF gwCheckMode # gatewayModeDisabled
                THEN [run EXCEPT !.w = w2, !.err = ready.err, !.ops = routed \o ready.ops]
                ELSE [run EXCEPT !.w = w2, !.err = "", !.ops = routed]
        withRoutes(conf, defaults) ==
            inNetNS(conf, defaults,
                    addStaticRoutes(RouteReplaceAll(run.w.routes[h], defaults, Len(defaults)),
                                    ifName, routes, Len(routes)),
                    waitNetworkReady(ifName, ips, gateway,
                                     gwCheckMode = gatewayCheckModeArping, answers))
        WithNetNSPath(inside) ==
            [inside EXCEPT !.ops = Append(@, OpRecord("RestoreNetNS", "host", NoArg))]
    IN  IF run.w.veth[h] # "host"
        THEN [run EXCEPT !.err = "can not find container nic"]
        ELSE WithNetNSPath(withRoutes(configureNic(ifName, run.w.addrs[h], ips),
                                      DefaultRoutes(ips, gateway, isDefaultRoute)))

\* del-port of the named ports: an in-switch port takes its device along,
\* wherever the device is
DelPorts(w, names) ==
    [w EXCEPT !.ports = {p \in @ : p.name \notin names},
              !.internal = [h \in HostNicNames |->
                              IF PeerName(h) \in names /\ (\E p \in w.ports : p.name = PeerName(h))
                              THEN "none" ELSE @[h]],
              !.iaddrs = [h \in HostNicNames |->
                              IF PeerName(h) \in names /\ (\E p \in w.ports : p.name = PeerName(h))
                              THEN {} ELSE @[h]],
              !.iroutes = [h \in HostNicNames |->
                              IF PeerName(h) \in names /\ (\E p \in w.ports : p.name = PeerName(h))
                              THEN {} ELSE @[h]]]

\* a mutation of bindPort: the port is added without the cleanup
bindPortWithoutCleanup(run, ifaceID, nicName) ==
    [run EXCEPT !.w.ports = AddPortMayExist(@, nicName, ifaceID),
                !.ops = @ \o <<OpRecord("add-port", nicName, NoArg)>>]

\* lines 767-779 (and 728-743, 1541-1554): the ports tagged with the
\* logical-port id under another name are removed, then the port is added
bindPort(run, ifaceID, nicName) ==
    LET stale == {p.name : p \in {q \in run.w.ports : q.ifaceID = ifaceID /\ q.name # nicName}}
        cleaned == DelPorts(run.w, stale)
    IN  [run EXCEPT !.w = [cleaned EXCEPT !.ports = AddPortMayExist(
                                CleanDuplicatePort(run.w.ports, ifaceID, nicName), nicName, ifaceID)],
                    !.ops = @ \o <<OpRecord("CleanDuplicatePort", nicName, [stale |-> stale]),
                                   OpRecord("add-port", nicName, NoArg)>>]

\* setupSriovInterface, lines 1433-1513, for vfDriver "vfio-pci" (no netdevice
\* of the virtual function, the container NIC name is empty). The fault
\* "sriov" is one of the lookups of lines 1436-1491 failing; renameLink fails
\* after LinkSetDown when another link has the name; the fault "mac" is
\* net.ParseMAC failing in setVfMac (lines 1647-1650).
setupSriovInterface(run, containerID, deviceID, ifName, mac, fault) ==
    LET h == generateNicName(containerID, ifName)[1]
    IN  IF fault = "sriov" THEN [run EXCEPT !.err = "failed to get vf representor"]
        ELSE IF HostPairsNamed(run.w, h) # {}
        THEN [run EXCEPT !.err = "failed to rename",
                         !.ops = Did(run, "LinkSetDown", run.w.rep, NoArg)]
        ELSE IF fault = "mac"
        THEN [run EXCEPT !.w.rep = h, !.err = "failed to parse mac",
                         !.ops = @ \o <<OpRecord("renameLink", h, NoArg),
                                        OpRecord("LinkSetMTU", h, NoArg),
                                        OpRecord("setVfMac", deviceID, [failed |-> TRUE])>>]
        ELSE [run EXCEPT !.w.rep = h, !.w.vfMac = mac, !.hostNicName = h,
                         !.ops = @ \o <<OpRecord("renameLink", h, NoArg),
                                        OpRecord("LinkSetMTU", h, NoArg),
                                        OpRecord("setVfMac", deviceID, NoArg)>>]

\* cniServerHandler.configureNic going on to the binding whatever the device
\* provisioner returned
attachNicAfterProvisionerError(w, podName, provider, containerID, deviceID, ips, gateway, isDefaultRoute, routes, gwCheckMode, answers, fault) ==
    LET ifaceID == PodNameToPortName(podName, PodNamespace, provider)
        h == generateNicName(containerID, Eth0)[1]
        configured(r2) ==
            IF deviceID # "" THEN r2
            ELSE IF fault = "netns" THEN [r2 EXCEPT !.err = "failed to open netns"]
            ELSE configureContainerNic(r2, h, Eth0, ips, gateway, isDefaultRoute, routes,
                                       gwCheckMode, answers)
        parsed(b) ==
            IF fault = "mac" THEN [b EXCEPT !.err = "failed to parse mac"]
            ELSE configured([b EXCEPT !.w.qos = @ \cup {ifaceID},
                                      !.ops = @ \o <<OpRecord("LinkSetUp", h, NoArg),
                                                     OpRecord("SetInterfaceBandwidth", h, NoArg)>>])
        bound(r1) ==
            parsed(bindPort(r1, ifaceID, h))
    IN  bound(IF deviceID = "" THEN setupVethPair(Run(w), containerID, Eth0, fault)
              ELSE setupSriovInterface(Run(w), containerID, deviceID, Eth0, podName, fault))

\* cniServerHandler.configureNic parsing the MAC after the host link and the
\* shaping are set up
attachNicMacParsedLate(w, podName, provider, containerID, deviceID, ips, gateway, isDefaultRoute, routes, gwCheckMode, answers, fault) ==
    LET ifaceID == PodNameToPortName(podName, PodNamespace, provider)
        h == generateNicName(containerID, Eth0)[1]
        configured(r2) ==
            IF deviceID # "" THEN r2
            ELSE IF fault = "netns" THEN [r2 EXCEPT !.err = "failed to open netns"]
            ELSE configureContainerNic(r2, h, Eth0, ips, gateway, isDefaultRoute, routes,
                                       gwCheckMode, answers)
        parsed(b) ==
            IF fault = "mac"
            THEN [b EXCEPT !.err = "failed to parse mac", !.w.qos = @ \cup {ifaceID},
                           !.ops = @ \o <<OpRecord("LinkSetUp", h, NoArg),
                                          OpRecord("SetInterfaceBandwidth", h, NoArg)>>]
            ELSE configured([b EXCEPT !.w.qos = @ \cup {ifaceID},
                                      !.ops = @ \o <<OpRecord("LinkSetUp", h, NoArg),
                                                     OpRecord("SetInterfaceBandwidth", h, NoArg)>>])
        bound(r1) ==
            IF r1.err # "" THEN r1 ELSE parsed(bindPort(r1, ifaceID, h))
    IN  bound(IF deviceID = "" THEN setupVethPair(Run(w), containerID, Eth0, fault)
              ELSE setupSriovInterface(Run(w), containerID, deviceID, Eth0, podName, fault))

\* cniServerHandler.configureNic, lines 750-819. With a DeviceID the container
\* NIC name is empty and the call returns at line 797. The fault "netns" is
\* ns.GetNS failing (the namespace of the container is gone).
attachNic(w, podName, provider, containerID, deviceID, ips, gateway, isDefaultRoute, routes, gwCheckMode, answers, fault) ==
    LET ifaceID == PodNameToPortName(podName, PodNamespace, provider)
        h == generateNicName(containerID, Eth0)[1]
        configured(r2) ==
            IF deviceID # "" THEN r2
            ELSE IF fault = "netns" THEN [r2 EXCEPT !.err = "failed to open netns"]
            ELSE configureContainerNic(r2, h, Eth0, ips, gateway, isDefaultRoute, routes,
                                       gwCheckMode, answers)
        parsed(b) ==
            IF fault = "mac" THEN [b EXCEPT !.err = "failed to parse mac"]
            ELSE configured([b EXCEPT !.w.qos = @ \cup {ifaceID},
                                      !.ops = @ \o <<OpRecord("LinkSetUp", h, NoArg),
                                                     OpRecord("SetInterfaceBandwidth", h, NoArg)>>])
        bound(r1) ==
            IF r1.err # "" THEN r1 ELSE parsed(bindPort(r1, ifaceID, h))
    IN  bound(IF deviceID = "" THEN setupVethPair(Run(w), containerID, Eth0, fault)
              ELSE setupSriovInterface(Run(w), containerID, deviceID, Eth0, podName, fault))

\* configureContainerNic, lines 901-1037, for nicType internal: the device is
\* moved and keeps its name, a static interface of the requested name gets
\* the addresses too
configureContainerNicInternal(run, h, ifName, ips, gateway, isDefaultRoute, routes, gwCheckMode, answers) ==
    LET c == PeerName(h)
        isPort == run.w.internal[h] = "host"
        isPeer == run.w.veth[h] = "host"
        moved == IF isPort THEN [run.w EXCEPT !.internal[h] = "ns"]
                 ELSE [run.w EXCEPT !.veth[h] = "moved"]
        movedOps == run.ops \o <<OpRecord("LinkSetAlias", c, NoArg),
                                 OpRecord("LinkSetNsFd", c, NoArg),
                                 OpRecord("WithNetNSPath", "pod", NoArg)>>
        taken == moved.dummy[h].present \/ moved.veth[h] = "renamed"
        afterLinkDel == IF moved.dummy[h].present
                        THEN [moved EXCEPT !.dummy[h] = [present |-> FALSE, addrs |-> {}]]
                        ELSE LinkDelPair(moved, h)
        inNetNS(static, conf, defaults, extra, ready) ==
            LET w1 == [moved EXCEPT !.dummy[h] = [present |-> TRUE, addrs |-> static.addrs]]
                w2 == IF isPort THEN [w1 EXCEPT !.iaddrs[h] = conf.addrs]
                      ELSE [w1 EXCEPT !.addrs[h] = conf.addrs]
                w3 == IF isPort
                      THEN [w2 EXCEPT !.iroutes[h] = extra.table]
                      ELSE [w2 EXCEPT !.routes[h] = extra.table]
                confOps == movedOps \o <<OpRecord("LinkAdd", ifName, NoArg)>>
                           \o SelectSeq(static.ops, LAMBDA o : o.op \in {"AddrDel", "AddrAdd"})
                           \o conf.ops
                routed == confOps \o [i \in 1..Len(defaults) |->
                                         OpRecord("RouteReplace", c, defaults[i])] \o extra.ops
            IN  IF taken
                THEN [run EXCEPT !.w = afterLinkDel, !.err = "failed to create static iface",
                                 !.ops = movedOps \o <<OpRecord("LinkDel", ifName, NoArg)>>]
                ELSE IF conf.err # ""
                THEN [run EXCEPT !.w = w2, !.err = conf.err, !.ops = confOps]
                ELSE IF gwCheckMode # gatewayModeDisabled
                THEN [run EXCEPT !.w = w3, !.err = ready.err, !.ops = routed \o ready.ops]
                ELSE [run EXCEPT !.w = w3, !.err = "", !.ops = routed]
        withRoutes(static, conf, defaults) ==
            inNetNS(static, conf, defaults,
                    addStaticRoutes(RouteReplaceAll(IF isPort THEN moved.iroutes[h]
                                                    ELSE moved.routes[h],
                                                    defaults, Len(defaults)),
                                    c, routes, Len(routes)),
                    waitNetworkReady(c, ips, gateway, gwCheckMode = gatewayCheckModeArping,
                                     answers))
        inside == withRoutes(configureNic(ifName, {}, ips),
                             configureNic(c, IF isPort THEN moved.iaddrs[h] ELSE moved.addrs[h], ips),
                             DefaultRoutes(ips, gateway, isDefaultRoute))
    IN  IF ~isPort /\ ~isPeer
        THEN [run EXCEPT !.err = "can not find container nic"]
        ELSE [inside EXCEPT !.ops = Append(@, OpRecord("RestoreNetNS", "host", NoArg))]

\* cniServerHandler.configureNicWithInternalPort, lines 1538-1578: the switch
\* makes the device of a port it did not have yet
attachNicWithInternalPort(w, podName, containerID, ips, gateway, isDefaultRoute, routes, gwCheckMode, answers, fault) ==
    LET ifaceID == PodNameToPortName(podName, PodNamespace, "ovn")
        h == generateNicName(containerID, Eth0)[1]
        c == generateNicName(containerID, Eth0)[2]
        isNew == ~(\E p \in w.ports : p.name = c) /\ HostPairsNamed(w, c) = {}
        configured(r2) ==
            IF fault = "netns" THEN [r2 EXCEPT !.err = "failed to open netns"]
            ELSE configureContainerNicInternal(r2, h, Eth0, ips, gateway, isDefaultRoute, routes,
                                               gwCheckMode, answers)
        parsed(b) ==
            IF fault = "mac" THEN [b EXCEPT !.err = "failed to parse mac"]
            ELSE configured([b EXCEPT !.w.qos = @ \cup {ifaceID},
                                      !.ops = Append(@, OpRecord("SetInterfaceBandwidth", c, NoArg))])
    IN  parsed([bindPort(Run(w), ifaceID, c)
                EXCEPT !.w.internal[h] = IF isNew THEN "host" ELSE @])

\* cniServerHandler.configureDpdkNic, lines 724-748
attachDpdkNic(w, podName, containerID) ==
    LET ifaceID == PodNameToPortName(podName, PodNamespace, "ovn")
        h == generateNicName(containerID, Eth0)[1]
        bound == bindPort(Run(w), ifaceID, h)
    IN  [bound EXCEPT !.w.qos = @ \cup {ifaceID},
                      !.ops = Append(@, OpRecord("SetInterfaceBandwidth", h, NoArg))]

\* a mutation of deleteHostLink: a link that is not there is an error
deleteHostLinkNotFoundIsError(run, nicName) ==
    LET found == HostPairsNamed(run.w, nicName)
    IN  IF found = {} THEN [run EXCEPT !.err = "find host link failed"]
        ELSE LET h == CHOOSE x \in found : TRUE
             IN  [run EXCEPT !.w = LinkDelPair(@, h), !.ops = Did(run, "LinkDel", nicName, NoArg)]

\* lines 844-861 of deleteNic: the link is looked up in the host namespace
\* and deleted if it is a veth; a link that is not there is no error
deleteHostLink(run, nicName) ==
    LET found == HostPairsNamed(run.w, nicName)
    IN  IF found = {} THEN run
        ELSE LET h == CHOOSE x \in found : TRUE
             IN  [run EXCEPT !.w = LinkDelPair(@, h), !.ops = Did(run, "LinkDel", nicName, NoArg)]

\* deleteNic removing the device before the port and the shaping
deleteNicDeviceFirst(w, podName, containerID, deviceID, ifName, nicType, fault) ==
    LET names == generateNicName(containerID, ifName)
        nicName == IF nicType = InternalType THEN names[2] ELSE names[1]
        r0 == IF deviceID = "" THEN deleteHostLink(Run(w), nicName) ELSE Run(w)
        r1 == [r0 EXCEPT !.w = DelPorts(@, {nicName}),
                         !.ops = Append(@, OpRecord("del-port", nicName, NoArg))]
        r2 == [r1 EXCEPT !.w.qos = {i \in @ : i[1] # podName},
                         !.ops = Append(@, OpRecord("ClearPodBandwidth", podName, NoArg))]
        r3 == [r2 EXCEPT !.ops = Append(@, OpRecord("ClearHtbQosQueue", podName, NoArg))]
    IN  IF fault = "ovs" THEN [r0 EXCEPT !.err = "failed to delete ovs port"]
        ELSE IF fault = "bandwidth" THEN [r1 EXCEPT !.err = "failed to clear bandwidth"]
        ELSE IF fault = "htb" THEN [r2 EXCEPT !.err = "failed to clear queue"]
        ELSE IF pciAddrRegexpMatch(deviceID)
             THEN [r3 EXCEPT !.w.vfMac = "00:00:00:00:00:00",
                             !.ops = Append(@, OpRecord("setVfMac", deviceID, NoArg))]
        ELSE r3

\* cniServerHandler.deleteNic, lines 821-874. The faults are the switch
\* refusing the del-port ("ovs"), ClearPodBandwidth failing ("bandwidth") and
\* ClearHtbQosQueue failing ("htb").
deleteNic(w, podName, containerID, deviceID, ifName, nicType, fault) ==
    LET names == generateNicName(containerID, ifName)
        nicName == IF nicType = InternalType THEN names[2] ELSE names[1]
        r0 == Run(w)
        r1 == [r0 EXCEPT !.w = DelPorts(w, {nicName}),
                         !.ops = Did(r0, "del-port", nicName, NoArg)]
        r2 == [r1 EXCEPT !.w.qos = {i \in @ : i[1] # podName},
                         !.ops = Append(@, OpRecord("ClearPodBandwidth", podName, NoArg))]
        r3 == [r2 EXCEPT !.ops = Append(@, OpRecord("ClearHtbQosQueue", podName, NoArg))]
    IN  IF fault = "ovs" THEN [r0 EXCEPT !.err = "failed to delete ovs port"]
        ELSE IF fault = "bandwidth" THEN [r1 EXCEPT !.err = "failed to clear bandwidth"]
        ELSE IF fault = "htb" THEN [r2 EXCEPT !.err = "failed to clear queue"]
        ELSE IF deviceID = "" THEN deleteHostLink(r3, nicName)
        ELSE IF pciAddrRegexpMatch(deviceID)
             THEN [r3 EXCEPT !.w.vfMac = "00:00:00:00:00:00",
                             !.ops = Append(@, OpRecord("setVfMac", deviceID, NoArg))]
        ELSE r3

\* what a call finds: whether br-int has a port of the name, whether the host
\* namespace has a veth end of the name, whether the representor of the
\* virtual function has the name
Found(w, nicName) ==
    [ port |-> \E p \in w.ports : p.name = nicName,
      link |-> HostPairsNamed(w, nicName) # {},
      rep |-> w.rep = nicName ]

\* the record of a handler call. plain is what the call would have returned
\* and left behind for a request without static routes. others tells whether the call changed what
\* belongs to another logical port under other device names: a port of
\* br-int with its tag, the shaping of such a port, a device
Call(op, args, fault, answers, run, before, linkBefore, pre) ==
    LET ownNames == IF args.containerID = <<>> THEN {}
                    ELSE {generateNicName(args.containerID, Eth0)[1],
                          generateNicName(args.containerID, Eth0)[2]}
        own == {PodNameToPortName(args.podName, PodNamespace, args.provider)}
        foreign(w) ==
            [ ports |-> {p \in w.ports : p.ifaceID \notin own /\ p.name \notin ownNames},
              qos |-> {i \in w.qos : /\ i \notin own
                                     /\ \E p \in before.ports :
                                           p.ifaceID = i /\ p.name \notin ownNames},
              devices |-> [h \in {x \in HostNicNames \ ownNames :
                                      ~\E p \in before.ports :
                                          p.name \in {x, PeerName(x)} /\ p.ifaceID \in own} |->
                              <<w.veth[h], w.addrs[h], w.routes[h], w.internal[h],
                                w.iaddrs[h], w.iroutes[h], w.dummy[h]>>] ]
    IN
    [ op |-> op, args |-> args, fault |-> fault, answers |-> answers,
      result |-> IF run.err = "" THEN "ok" ELSE "err",
      ops |-> run.ops,
      linkBefore |-> linkBefore,
      pre |-> pre,
      changed |-> run.w # before,
      repeat |-> lastCall.op = op /\ lastCall.args = args /\ lastCall.result = "ok"
                 /\ lastCall.fault = "none",
      others |-> foreign(run.w) # foreign(before),
      names |-> <<run.hostNicName, run.containerNicName>>,
      plain |-> run ]

\* the CNI server attaches a pod
cniConfigureNic(podName, provider, containerID, deviceID, choice, isDefaultRoute, routes, gwCheckMode, answers, fault) ==
    LET args == [podName |-> podName, provider |-> provider, containerID |-> containerID, ip |-> choice.ip, gateway |-> choice.gateway,
                 isDefaultRoute |-> isDefaultRoute, routes |-> routes, gwCheckMode |-> gwCheckMode,
                 deviceID |-> deviceID, nicType |-> VethType]
        attach(rs) == attachNic(nic, podName, provider, containerID, deviceID, choice.ip,
                                choice.gateway, isDefaultRoute, rs, gwCheckMode, answers, fault)
        returned(run) ==
            /\ nic' = run.w
            /\ lastCall' = [Call("configureNic", args, fault, answers, run, nic,
                                 nic.addrs[generateNicName(containerID, Eth0)[1]],
                                 Found(nic, generateNicName(containerID, Eth0)[1]))
                                 EXCEPT !.plain = IF routes = <<>> THEN run ELSE attach(<<>>)]
    IN  /\ returned(attach(routes))
        /\ UNCHANGED <<ovn0, nicNames, probing>>
        /\ UNCHANGED notNic

\* the CNI server attaches a pod through an in-switch port
cniConfigureNicWithInternalPort(podName, containerID, choice, isDefaultRoute, routes, gwCheckMode, answers, fault) ==
    LET args == [podName |-> podName, provider |-> "ovn", containerID |-> containerID, ip |-> choice.ip,
                 gateway |-> choice.gateway, isDefaultRoute |-> isDefaultRoute, routes |-> routes,
                 gwCheckMode |-> gwCheckMode, deviceID |-> "", nicType |-> InternalType]
        attach(rs) == attachNicWithInternalPort(nic, podName, containerID, choice.ip,
                                                choice.gateway, isDefaultRoute, rs, gwCheckMode,
                                                answers, fault)
        returned(run) ==
            /\ nic' = run.w
            /\ lastCall' = [Call("configureNicWithInternalPort", args, fault, answers, run, nic,
                                 nic.iaddrs[generateNicName(containerID, Eth0)[1]],
                                 Found(nic, generateNicName(containerID, Eth0)[2]))
                                 EXCEPT !.plain = IF routes = <<>> THEN run ELSE attach(<<>>)]
    IN  /\ returned(attach(routes))
        /\ UNCHANGED <<ovn0, nicNames, probing>>
        /\ UNCHANGED notNic

\* the CNI server attaches a pod through a DPDK socket
cniConfigureDpdkNic(podName, containerID) ==
    LET args == [podName |-> podName, provider |-> "ovn", containerID |-> containerID, ip |-> <<>>,
                 gateway |-> <<>>, isDefaultRoute |-> FALSE, routes |-> <<>>,
                 gwCheckMode |-> gatewayModeDisabled, deviceID |-> "", nicType |-> "dpdk"]
        run == attachDpdkNic(nic, podName, containerID)
    IN  /\ nic' = run.w
        /\ lastCall' = Call("configureDpdkNic", args, "none", QuietGateways, run, nic, {},
                           Found(nic, generateNicName(containerID, Eth0)[1]))
        /\ UNCHANGED <<ovn0, nicNames, probing>>
        /\ UNCHANGED notNic

\* the CNI server detaches a pod; the request names the provider, deleteNic
\* is not given it
cniDeleteNic(podName, provider, containerID, deviceID, nicType, fault) ==
    LET args == [podName |-> podName, provider |-> provider, containerID |-> containerID, ip |-> <<>>, gateway |-> <<>>,
                 isDefaultRoute |-> FALSE, routes |-> <<>>, gwCheckMode |-> gatewayModeDisabled,
                 deviceID |-> deviceID, nicType |-> nicType]
        run == deleteNic(nic, podName, containerID, deviceID, Eth0, nicType, fault)
    IN  /\ nic' = run.w
        /\ lastCall' = Call("deleteNic", args, fault, QuietGateways, run, nic, {},
                           Found(nic, IF nicType = InternalType
                                      THEN generateNicName(containerID, Eth0)[2]
                                      ELSE generateNicName(containerID, Eth0)[1]))
        /\ UNCHANGED <<ovn0, nicNames, probing>>
        /\ UNCHANGED notNic

(***************************************************************************)
(* Node NIC                                                                *)
(***************************************************************************)

NodeNic == "ovn0"
\* the address annotations of the node: one address, or IPv4 then IPv6
NodeIpChoices ==
    { [ip |-> <<V4a>>, gateway |-> <<Gw4>>],
      [ip |-> <<V4a, V6a>>, gateway |-> <<Gw4, Gw6>>],
      [ip |-> <<V4b, V6a>>, gateway |-> <<Gw4, Gw6>>] }

\* configureNodeNic, lines 1064-1096
configureNodeNic(choice, answers) ==
    LET conf == configureNic(NodeNic, ovn0.addrs, choice.ip)
        ready == waitNetworkReady(NodeNic, choice.ip, choice.gateway, FALSE, answers)
        args == [podName |-> "", provider |-> "ovn", containerID |-> <<>>, ip |-> choice.ip, gateway |-> choice.gateway,
                 isDefaultRoute |-> FALSE, routes |-> <<>>, gwCheckMode |-> gatewayCheckModePing,
                 deviceID |-> "", nicType |-> InternalType]
        run == [Run(nic) EXCEPT
                 !.err = IF conf.err # "" THEN conf.err ELSE ready.err,
                 !.ops = <<OpRecord("add-port", NodeNic, NoArg)>> \o conf.ops
                         \o (IF conf.err = "" THEN ready.ops ELSE <<>>)]
    IN  /\ ovn0' = [present |-> TRUE, addrs |-> conf.addrs]
        /\ lastCall' = [Call("configureNodeNic", args, "none", answers, run, nic, ovn0.addrs,
                             [port |-> ovn0.present, link |-> ovn0.present])
                            EXCEPT !.changed = (conf.addrs # ovn0.addrs \/ ~ovn0.present)]
        /\ UNCHANGED <<nic, nicNames, probing>>
        /\ UNCHANGED notNic

\* loopOvn0Check with the error of the node lister fatal too
loopOvn0CheckNodeErrorFatal(fault, choice, answers) ==
    LET ready == waitNetworkReady(NodeNic, choice.ip, choice.gateway, FALSE, answers)
        probed == ovn0.present /\ fault = "none"
        fatal == ~ovn0.present \/ fault # "none" \/ ready.err # ""
        args == [podName |-> "", provider |-> "ovn", containerID |-> <<>>, ip |-> choice.ip, gateway |-> choice.gateway,
                 isDefaultRoute |-> FALSE, routes |-> <<>>, gwCheckMode |-> gatewayCheckModePing,
                 deviceID |-> "", nicType |-> InternalType]
        run == [Run(nic) EXCEPT !.err = IF fatal THEN "exit" ELSE "",
                                !.ops = IF probed THEN ready.ops ELSE <<>>]
    IN  /\ lastCall.result # "fatal"
        /\ lastCall' = [Call("loopOvn0Check", args, fault, answers, run, nic, ovn0.addrs,
                             [port |-> ovn0.present, link |-> ovn0.present])
                            EXCEPT !.result = IF fatal THEN "fatal" ELSE "ok"]
        /\ UNCHANGED <<nic, ovn0, nicNames, probing>>
        /\ UNCHANGED notNic

\* Controller.loopOvn0Check, lines 1100-1120, run every period while the
\* process runs (line 669); LogFatalAndExit ends the process, and the next
\* start configures the node NIC before the check runs again. The fault
\* "operdown" is the link found with OperState down, "nodeget" the node
\* lister failing; choice is what the annotations of the node hold.
loopOvn0Check(fault, choice, answers) ==
    LET ready == waitNetworkReady(NodeNic, choice.ip, choice.gateway, FALSE, answers)
        probed == ovn0.present /\ fault = "none"
        fatal == ~ovn0.present \/ fault = "operdown" \/ (probed /\ ready.err # "")
        args == [podName |-> "", provider |-> "ovn", containerID |-> <<>>, ip |-> choice.ip, gateway |-> choice.gateway,
                 isDefaultRoute |-> FALSE, routes |-> <<>>, gwCheckMode |-> gatewayCheckModePing,
                 deviceID |-> "", nicType |-> InternalType]
        run == [Run(nic) EXCEPT !.err = IF fatal THEN "exit" ELSE "",
                                !.ops = IF probed THEN ready.ops ELSE <<>>]
    IN  /\ lastCall.result # "fatal"
        /\ lastCall' = [Call("loopOvn0Check", args, fault, answers, run, nic, ovn0.addrs,
                             [port |-> ovn0.present, link |-> ovn0.present])
                            EXCEPT !.result = IF fatal THEN "fatal" ELSE "ok"]
        /\ UNCHANGED <<nic, ovn0, nicNames, probing>>
        /\ UNCHANGED notNic

\* the kernel gives the node NIC its link-local address once the link is up
KernelLinkLocal ==
    /\ ovn0.present
    /\ V6LinkLocal \notin ovn0.addrs
    /\ ovn0' = [ovn0 EXCEPT !.addrs = @ \cup {V6LinkLocal}]
    /\ UNCHANGED <<nic, lastCall, nicNames, probing>>
    /\ UNCHANGED notNic

NoCall ==
    [ op |-> "none", args |-> [podName |-> "", provider |-> "ovn", containerID |-> <<>>, ip |-> <<>>, gateway |-> <<>>,
                               isDefaultRoute |-> FALSE, routes |-> <<>>, gwCheckMode |-> gatewayModeDisabled,
                               deviceID |-> "", nicType |-> VethType],
      fault |-> "none", answers |-> QuietGateways, result |-> "ok", ops |-> <<>>,
      linkBefore |-> {}, pre |-> [port |-> FALSE, link |-> FALSE, rep |-> FALSE],
      changed |-> FALSE, repeat |-> FALSE, others |-> FALSE, names |-> <<<<>>, <<>>>>,
      plain |-> Run(<<>>) ]

\* no device, no port, no shaping; the virtual function carries the MAC m.
\* internal[h] is where the in-switch device of the container is ("none",
\* "host" namespace, or the pod's namespace "ns"), dummy[h] the static
\* interface that addAdditionalNic puts into the pod's namespace.
NoDevices(m) ==
    [ veth |-> [h \in HostNicNames |-> "none"],
      addrs |-> [h \in HostNicNames |-> {}],
      routes |-> [h \in HostNicNames |-> {}],
      internal |-> [h \in HostNicNames |-> "none"],
      iaddrs |-> [h \in HostNicNames |-> {}],
      iroutes |-> [h \in HostNicNames |-> {}],
      dummy |-> [h \in HostNicNames |-> [present |-> FALSE, addrs |-> {}]],
      ports |-> {},
      qos |-> {},
      vfMac |-> m,
      rep |-> <<"r", "e", "p", "0">> ]

(***************************************************************************)
(* Reachability prober, probe by probe                                     *)
(***************************************************************************)

\* no call of waitNetworkReady runs
NoProbing ==
    [ pc |-> "idle", ips |-> <<>>, gateway |-> <<>>, underlayGateway |-> FALSE,
      answers |-> QuietGateways, i |-> 0, count |-> 0, sent |-> <<>>, err |-> "" ]

\* waitNetworkReady is called, line 1039: the loop starts at the first gateway
WaitNetworkReadyCall(choice, underlayGateway, answers) ==
    /\ probing.pc # "probe"
    /\ probing' = [NoProbing EXCEPT !.pc = "probe", !.ips = choice.ip,
                                    !.gateway = choice.gateway,
                                    !.underlayGateway = underlayGateway,
                                    !.answers = answers, !.i = 1]
    /\ UNCHANGED <<nic, ovn0, lastCall, nicNames>>
    /\ UNCHANGED notNic

\* the loop going on to the next gateway after a gateway that did not answer
ProbeStepPastFailure ==
    /\ probing.pc = "probe"
    /\ LET gw == probing.gateway[probing.i]
           n == probing.count + 1
           sent == Append(probing.sent,
                          [kind |-> IF probing.underlayGateway /\ gw.bits = 32
                                    THEN "Arping" ELSE "pingGateway",
                           i |-> probing.i, gw |-> gw.ip, src |-> probing.ips[probing.i].ip])
           failed == probing.answers[gw.ip] # n /\ n = gatewayCheckMaxRetry
       IN  probing' =
             IF probing.answers[gw.ip] # n /\ n < gatewayCheckMaxRetry
             THEN [probing EXCEPT !.count = n, !.sent = sent]
             ELSE IF probing.i = Len(probing.gateway)
             THEN [probing EXCEPT !.pc = "done", !.count = n, !.sent = sent,
                                  !.err = IF failed THEN "network is not ready" ELSE @]
             ELSE [probing EXCEPT !.i = @ + 1, !.count = 0, !.sent = sent,
                                  !.err = IF failed THEN "network is not ready" ELSE @]
    /\ UNCHANGED <<nic, ovn0, lastCall, nicNames>>
    /\ UNCHANGED notNic

\* the loop sending an Arping to every gateway of an underlay, and every
\* probe from the first address
ProbeStepArpingFromFirst ==
    /\ probing.pc = "probe"
    /\ LET gw == probing.gateway[probing.i]
           n == probing.count + 1
           sent == Append(probing.sent,
                          [kind |-> IF probing.underlayGateway THEN "Arping" ELSE "pingGateway",
                           i |-> probing.i, gw |-> gw.ip, src |-> probing.ips[1].ip])
       IN  probing' =
             IF probing.answers[gw.ip] = n
             THEN IF probing.i = Len(probing.gateway)
                  THEN [probing EXCEPT !.pc = "done", !.count = n, !.sent = sent]
                  ELSE [probing EXCEPT !.i = @ + 1, !.count = 0, !.sent = sent]
             ELSE IF n >= gatewayCheckMaxRetry
             THEN [probing EXCEPT !.pc = "done", !.count = n, !.sent = sent,
                                  !.err = "network is not ready"]
             ELSE [probing EXCEPT !.count = n, !.sent = sent]
    /\ UNCHANGED <<nic, ovn0, lastCall, nicNames>>
    /\ UNCHANGED notNic

\* one probe of the loop of waitNetworkReady, lines 1041-1060: the probe for
\* gateway i is an Arping when underlayGateway is set and the gateway is
\* IPv4, a pingGateway otherwise, from the address of ips[i] without its
\* prefix. A gateway that answers the probe ends its turn; a gateway that has
\* let gatewayCheckMaxRetry probes pass ends the call with an error.
ProbeStep ==
    /\ probing.pc = "probe"
    /\ LET gw == probing.gateway[probing.i]
           n == probing.count + 1
           sent == Append(probing.sent,
                          [kind |-> IF probing.underlayGateway /\ gw.bits = 32
                                    THEN "Arping" ELSE "pingGateway",
                           i |-> probing.i, gw |-> gw.ip, src |-> probing.ips[probing.i].ip])
       IN  probing' =
             IF probing.answers[gw.ip] = n
             THEN IF probing.i = Len(probing.gateway)
                  THEN [probing EXCEPT !.pc = "done", !.count = n, !.sent = sent]
                  ELSE [probing EXCEPT !.i = @ + 1, !.count = 0, !.sent = sent]
             ELSE IF n >= gatewayCheckMaxRetry
             THEN [probing EXCEPT !.pc = "done", !.count = n, !.sent = sent,
                                  !.err = "network is not ready"]
             ELSE [probing EXCEPT !.count = n, !.sent = sent]
    /\ UNCHANGED <<nic, ovn0, lastCall, nicNames>>
    /\ UNCHANGED notNic

\* the calls of waitNetworkReady: overlay and underlay, gateways that answer
\* the first probe, a later one, or none within the bound
ProbeNext ==
    \/ \E choice \in IpGatewayChoices, underlayGateway \in BOOLEAN,
          answers \in [{Gw4.ip, Gw6.ip} -> 1..(gatewayCheckMaxRetry + 1)] :
            WaitNetworkReadyCall(choice, underlayGateway, answers)
    \/ ProbeStep

NicQuiet ==
    /\ nic = NoDevices("00:00:00:00:00:00")
    /\ ovn0 = [present |-> FALSE, addrs |-> {}]
    /\ lastCall = NoCall
    /\ nicNames = NoNames
    /\ probing = NoProbing

NicInit ==
    /\ nic \in {NoDevices(m) : m \in {"00:00:00:00:00:00", "pod"}}
    /\ ovn0 = [present |-> FALSE, addrs |-> {}]
    /\ lastCall = NoCall
    /\ nicNames = NoNames
    /\ probing = NoProbing

NicNext ==
    \/ \E c \in RequestContainers, choice \in IpGatewayChoices, d \in BOOLEAN,
          m \in GwCheckModes, answers \in GatewayAnswers, fault \in {"none", "netns"} :
            cniConfigureNic(PodName, "ovn", c, "", choice, d, <<>>, m, answers, fault)
    \/ \E c \in RequestContainers :
            cniConfigureNic(PodName, "ovn", c, "", [ip |-> <<V4a>>, gateway |-> <<Gw4>>], TRUE, <<>>,
                            gatewayModeDisabled, QuietGateways, "veth")
    \/ \E c \in RequestContainers, fault \in {"none", "sriov"} :
            cniConfigureNic(PodName, "ovn", c, PciDeviceID, [ip |-> <<V4a>>, gateway |-> <<Gw4>>], TRUE, <<>>,
                            gatewayModeDisabled, QuietGateways, fault)
    \/ \E c \in RequestContainers, dev \in DeviceIDs, t \in {VethType, InternalType},
          fault \in {"none", "ovs", "bandwidth", "htb"} :
            cniDeleteNic(PodName, "ovn", c, dev, t, fault)

\* the requests of several pods and containers, one variant of each
PortsNext ==
    \/ \E pod \in Pods, c \in ContainerIDs :
          cniConfigureNic(pod, "ovn", c, "", [ip |-> <<V4a>>, gateway |-> <<Gw4>>], TRUE, <<>>,
                          gatewayModeDisabled, QuietGateways, "none")
    \/ \E pod \in Pods, c \in ContainerIDs :
          cniConfigureNicWithInternalPort(pod, c, [ip |-> <<V4a>>, gateway |-> <<Gw4>>], TRUE, <<>>,
                                          gatewayModeDisabled, QuietGateways, "none")
    \/ \E pod \in Pods, c \in ContainerIDs : cniConfigureDpdkNic(pod, c)
    \/ \E pod \in Pods, c \in ContainerIDs, t \in {VethType, InternalType} :
          cniDeleteNic(pod, "ovn", c, "", t, "none")

\* attach and teardown requests for the logical ports of the pods: every pod
\* has an interface on each provider, and a container for each sandbox
SharedNext ==
    \/ \E pod \in Pods, provider \in Providers, c \in ContainerIDs :
          cniConfigureNic(pod, provider, c, "", [ip |-> <<V4a>>, gateway |-> <<Gw4>>], TRUE, <<>>,
                          gatewayModeDisabled, QuietGateways, "none")
    \/ \E pod \in Pods, provider \in Providers, c \in ContainerIDs :
          cniDeleteNic(pod, provider, c, "", VethType, "none")

\* attach requests with static routes, through a pair and through an
\* in-switch port, and the teardown between them. A list holds up to two
\* entries: well-formed with and without gateway, a destination that is no
\* CIDR, a gateway that is no IP, a gateway on no connected network; the
\* second entry of a list is well-formed.
InstallNext ==
    LET good == { [dst |-> "192.168.0.0/16", gw |-> Gw4.ip],
                  [dst |-> "172.16.0.0/12", gw |-> ""] }
        entries == good \cup { [dst |-> "192.168.0.0/33", gw |-> ""],
                               [dst |-> "10.8.0.0/16", gw |-> "gateway"],
                               [dst |-> "10.8.0.0/16", gw |-> "203.0.113.1"] }
        lists == {<<>>} \cup {<<a>> : a \in entries} \cup {<<a, b>> : a \in entries, b \in good}
        choice == [ip |-> <<V4a>>, gateway |-> <<Gw4>>]
        gateways == {QuietGateways, [QuietGateways EXCEPT ![Gw4.ip] = gatewayCheckMaxRetry + 1]}
    IN  \/ \E c \in RequestContainers, routes \in lists,
              m \in {gatewayModeDisabled, gatewayCheckModePing}, answers \in gateways :
                cniConfigureNic(PodName, "ovn", c, "", choice, TRUE, routes, m, answers, "none")
        \/ \E c \in RequestContainers, routes \in lists, answers \in gateways :
                cniConfigureNicWithInternalPort(PodName, c, choice, TRUE, routes,
                                                gatewayCheckModePing, answers, "none")
        \/ \E c \in RequestContainers, t \in {VethType, InternalType} :
                cniDeleteNic(PodName, "ovn", c, "", t, "none")
        \/ \E c \in RequestContainers, d \in {"", PciDeviceID} :
                cniConfigureNic(PodName, "ovn", c, d, choice, TRUE, <<>>, gatewayModeDisabled,
                                QuietGateways, "mac")
        \/ \E c \in RequestContainers :
                cniConfigureNicWithInternalPort(PodName, c, choice, TRUE, <<>>,
                                                gatewayModeDisabled, QuietGateways, "mac")

\* the three device provisioners behind their handlers, for two containers:
\* a pair (created, refused, or reported failed by LinkAdd), a virtual
\* function (lookups failing, the MAC failing after the rename), a DPDK
\* socket, and the teardown
ProvisionNext ==
    LET choice == [ip |-> <<V4a>>, gateway |-> <<Gw4>>]
    IN  \/ \E c \in ContainerIDs, fault \in {"none", "veth", "netns"} :
                cniConfigureNic(PodName, "ovn", c, "", choice, TRUE, <<>>, gatewayModeDisabled,
                                QuietGateways, fault)
        \/ \E c \in ContainerIDs, fault \in {"none", "sriov", "mac"} :
                cniConfigureNic(PodName, "ovn", c, PciDeviceID, choice, TRUE, <<>>,
                                gatewayModeDisabled, QuietGateways, fault)
        \/ \E c \in ContainerIDs : cniConfigureDpdkNic(PodName, c)
        \/ \E c \in ContainerIDs, dev \in {"", PciDeviceID} :
                cniDeleteNic(PodName, "ovn", c, dev, VethType, "none")

NodeNext ==
    \/ \E choice \in NodeIpChoices, answers \in GatewayAnswers : configureNodeNic(choice, answers)
    \/ \E fault \in {"none", "operdown", "nodeget"}, choice \in NodeIpChoices,
          answers \in GatewayAnswers : loopOvn0Check(fault, choice, answers)
    \/ KernelLinkLocal

(***************************************************************************)
(* Pod and node NIC handlers: claims                                       *)
(***************************************************************************)

\* the operations of a call with one of the given names, in order
OpsNamed(call, names) ==
    SelectSeq(call.ops, LAMBDA o : o.op \in names)

\* the call got as far as configuring the link inside the pod's namespace
Configured(call) == OpsNamed(call, {"LinkSetName"}) # <<>>

\* the gateways of a request that would not answer within the retry bound
SilentGateways(call) ==
    {g \in Range(call.args.gateway) : call.answers[g.ip] > gatewayCheckMaxRetry}

DefaultDsts == {"0.0.0.0/0", "::/0"}

\* C3: calling attach twice with the same arguments returns success both
\* times and leaves one port bound to the logical-port id, the container
\* device in place, one set of the requested addresses and one default route
\* per address family.
C3_AttachTwiceIdempotent ==
    ( /\ lastCall.op = "configureNic"
      /\ lastCall.repeat
      /\ lastCall.fault = "none"
      /\ SilentGateways(lastCall) = {} )
    => LET h == generateNicName(lastCall.args.containerID, Eth0)[1]
           ifaceID == PodNameToPortName(PodName, PodNamespace, "ovn")
       IN  /\ lastCall.result = "ok"
           /\ nic.veth[h] = "renamed"
           /\ Cardinality({p \in nic.ports : p.ifaceID = ifaceID}) = 1
           /\ {[ip |-> a.ip, len |-> a.len] : a \in nic.addrs[h]}
                 = {[ip |-> a.ip, len |-> a.len] : a \in Range(lastCall.args.ip)}
           /\ \A d \in DefaultDsts :
                 Cardinality({r \in nic.routes[h] : r.dst = d}) =
                    IF /\ lastCall.args.isDefaultRoute
                       /\ \E a \in Range(lastCall.args.ip) :
                             a.bits = (IF d = "::/0" THEN 128 ELSE 32)
                    THEN 1 ELSE 0

\* C4: when the link holds the addresses {A, B} and {B, C} is requested,
\* configureNic makes exactly one address delete, of A, and exactly one
\* address add, of C, and neither deletes nor adds B.
C4_ReconcileDeletesAndAddsTheDifference ==
    LET cur == {a \in lastCall.linkBefore : ~IsLinkLocalUnicast(a.ip)}
        req == Range(lastCall.args.ip)
        dels == OpsNamed(lastCall, {"AddrDel"})
        adds == OpsNamed(lastCall, {"AddrAdd"})
    IN  ( /\ lastCall.op = "configureNodeNic"
          /\ Cardinality(cur) = 2
          /\ Cardinality(req) = 2
          /\ Cardinality(cur \cap req) = 1 )
        => /\ Len(dels) = 1
           /\ dels[1].arg \in cur \ req
           /\ Len(adds) = 1
           /\ adds[1].arg \in req \ cur

\* C7: deleteNic returns success when the port is already absent and the
\* host device no longer exists; called twice in sequence with the same
\* arguments, the second call returns success and changes nothing.
C7_DetachIdempotent ==
    (lastCall.op = "deleteNic" /\ lastCall.fault = "none")
    => /\ (~lastCall.pre.port /\ ~lastCall.pre.link) => lastCall.result = "ok"
       /\ lastCall.repeat => (lastCall.result = "ok" /\ ~lastCall.changed)

C7_Witness ==
    /\ lastCall.op = "deleteNic"
    /\ lastCall.fault = "none"
    /\ lastCall.repeat
    /\ lastCall.args.deviceID = ""
    /\ ~lastCall.pre.port
    /\ ~lastCall.pre.link
    /\ lastCall.result = "ok"
    /\ ~lastCall.changed

\* C8: with the gateway check enabled and a gateway that never answers,
\* configureContainerNic returns an error, and no address or route is added
\* once the probing has begun; with the check disabled no probe is made and
\* the call succeeds whatever the gateways do.
C8_GatewayCheckGatesTheAttach ==
    (lastCall.op = "configureNic" /\ Configured(lastCall))
    => LET ops == lastCall.ops
           probes == {i \in DOMAIN ops : ops[i].op \in {"Arping", "pingGateway"}}
       IN  /\ ( /\ lastCall.args.gwCheckMode # gatewayModeDisabled
                /\ SilentGateways(lastCall) # {} )
              => /\ lastCall.result = "err"
                 /\ probes # {}
                 /\ \A i \in probes, j \in DOMAIN ops :
                       j > i => ops[j].op \notin {"AddrAdd", "RouteReplace"}
           /\ lastCall.args.gwCheckMode = gatewayModeDisabled
              => (probes = {} /\ lastCall.result = "ok")

C8_Witness ==
    /\ lastCall.op = "configureNic"
    /\ Configured(lastCall)
    /\ lastCall.args.gwCheckMode = gatewayCheckModeArping
    /\ Len(lastCall.args.gateway) = 2
    /\ SilentGateways(lastCall) = {Gw6}
    /\ lastCall.result = "err"
    /\ Len(OpsNamed(lastCall, {"Arping"})) = 1
    /\ Len(OpsNamed(lastCall, {"pingGateway"})) = 1

C20_ProvisionerErrorStopsAttach ==
    LET provisionerFails ==
            IF lastCall.args.deviceID = ""
            THEN lastCall.pre.link \/ lastCall.pre.rep \/ lastCall.fault = "veth"
            ELSE lastCall.fault = "sriov" \/ lastCall.pre.link
    IN  (lastCall.op = "configureNic" /\ provisionerFails)
        => /\ lastCall.result = "err"
           /\ OpsNamed(lastCall, {"CleanDuplicatePort", "add-port", "LinkSetUp",
                                  "SetInterfaceBandwidth", "LinkSetAlias", "LinkSetNsFd",
                                  "WithNetNSPath", "LinkSetName",
                                  "AddrDel", "AddrAdd", "LinkSetHardwareAddr",
                                  "RouteReplace", "Arping", "pingGateway"}) = <<>>

\* C20 witness: setupVethPair found the host name taken, deleted the link of
\* that name and returned an error, and configureNic returned an error.
C20_Witness ==
    /\ lastCall.op = "configureNic"
    /\ lastCall.args.deviceID = ""
    /\ lastCall.pre.link
    /\ lastCall.result = "err"
    /\ Len(lastCall.ops) = 1
    /\ lastCall.ops[1].op = "LinkDel"

C22_TeardownOrder ==
    LET names == generateNicName(lastCall.args.containerID, Eth0)
        nicName == IF lastCall.args.nicType = InternalType THEN names[2] ELSE names[1]
        made == [i \in 1..Len(lastCall.ops) |-> lastCall.ops[i].op]
        shaping == <<"del-port", "ClearPodBandwidth", "ClearHtbQosQueue">>
        stoppedAt(n) == /\ lastCall.result = "err"
                        /\ made = SubSeq(shaping, 1, n)
                        /\ lastCall.pre.link => HostPairsNamed(nic, nicName) # {}
    IN  lastCall.op = "deleteNic"
        => /\ lastCall.fault = "ovs" => stoppedAt(0) /\ ~lastCall.changed
           /\ lastCall.fault = "bandwidth" => stoppedAt(1)
           /\ lastCall.fault = "htb" => stoppedAt(2)
           /\ (lastCall.fault = "none" /\ lastCall.args.deviceID = "")
              => /\ made = IF lastCall.pre.link THEN Append(shaping, "LinkDel") ELSE shaping
                 /\ HostPairsNamed(nic, nicName) = {}
                 /\ lastCall.pre.rep => nic.rep = nicName
           /\ (lastCall.fault = "none" /\ lastCall.args.deviceID = PciDeviceID)
              => /\ made = Append(shaping, "setVfMac")
                 /\ lastCall.pre.rep => nic.rep = nicName
                 /\ nic.vfMac = "00:00:00:00:00:00"

\* C22 witness: the teardown of a bound veth made the four calls in order
\* and the pair is gone.
C22_Witness ==
    /\ lastCall.op = "deleteNic"
    /\ lastCall.fault = "none"
    /\ lastCall.args.deviceID = ""
    /\ lastCall.pre.port /\ lastCall.pre.link
    /\ lastCall.result = "ok"
    /\ [i \in 1..Len(lastCall.ops) |-> lastCall.ops[i].op]
          = <<"del-port", "ClearPodBandwidth", "ClearHtbQosQueue", "LinkDel">>

\* C23: loopOvn0Check ends the process when the node NIC is missing, when
\* it is operationally down, and when a gateway does not answer within the
\* probe bound; it probes each gateway in one bounded run and never again in
\* the same check; when the node object cannot be read it makes no probe,
\* does not end the process, and the check can run again.
C23_SelfCheckFatalOrReturn ==
    LET probes == OpsNamed(lastCall, {"Arping", "pingGateway"})
        silent == {g \in Range(lastCall.args.gateway) :
                      lastCall.answers[g.ip] > gatewayCheckMaxRetry}
    IN  lastCall.op = "loopOvn0Check"
        => /\ ~lastCall.pre.link => lastCall.result = "fatal" /\ probes = <<>>
           /\ (lastCall.pre.link /\ lastCall.fault = "operdown")
              => lastCall.result = "fatal" /\ probes = <<>>
           /\ (lastCall.pre.link /\ lastCall.fault = "nodeget")
              => /\ lastCall.result = "ok"
                 /\ probes = <<>>
                 /\ ENABLED loopOvn0Check("none", [ip |-> <<V4a>>, gateway |-> <<Gw4>>], QuietGateways)
           /\ (lastCall.pre.link /\ lastCall.fault = "none")
              => /\ lastCall.result = "fatal" <=> silent # {}
                 /\ \A i, j \in DOMAIN probes : probes[i].arg.gw = probes[j].arg.gw => i = j
                 /\ \A i \in DOMAIN probes : probes[i].arg.count <= gatewayCheckMaxRetry
                 /\ silent # {} => probes[Len(probes)].arg.gw \in {g.ip : g \in silent}
           /\ lastCall.result = "fatal"
              => ~ENABLED loopOvn0Check("none", [ip |-> <<V4a>>, gateway |-> <<Gw4>>], QuietGateways)

\* C23 witness: the node NIC is there and up, the node object was read, and
\* the gateway let the whole probe bound pass: the process ended after one
\* run of probes.
C23_Witness ==
    /\ lastCall.op = "loopOvn0Check"
    /\ lastCall.pre.link
    /\ lastCall.fault = "none"
    /\ lastCall.result = "fatal"
    /\ Len(lastCall.ops) >= 1
    /\ lastCall.ops[Len(lastCall.ops)].arg.count = gatewayCheckMaxRetry

\* C24: a call of waitNetworkReady ends; it sends at most
\* gatewayCheckMaxRetry probes to a gateway, probes the gateways in the order
\* of the list, sends nothing after the first gateway that did not answer
\* within the bound, and returns no error exactly when every gateway of the
\* list answered within the bound.
C24_ProbingBoundedAndOrdered ==
    LET sent == probing.sent
        answered(j) == probing.answers[probing.gateway[j].ip] <= gatewayCheckMaxRetry
        probesOf(j) == Cardinality({k \in DOMAIN sent : sent[k].i = j})
    IN  /\ [](/\ \A j \in DOMAIN probing.gateway : probesOf(j) <= gatewayCheckMaxRetry
              /\ \A k \in DOMAIN sent : /\ sent[k].i \in DOMAIN probing.gateway
                                         /\ sent[k].gw = probing.gateway[sent[k].i].ip
              /\ \A k, l \in DOMAIN sent : k < l => sent[k].i <= sent[l].i
              /\ \A j \in DOMAIN probing.gateway :
                    probesOf(j) > 0 => \A b \in 1..(j - 1) : answered(b) /\ probesOf(b) > 0
              /\ probing.pc = "done"
                 => /\ probing.err = "" <=> \A j \in DOMAIN probing.gateway : answered(j)
                    /\ probing.err = "" => \A j \in DOMAIN probing.gateway : probesOf(j) > 0
                    /\ probing.err # ""
                       => /\ ~answered(sent[Len(sent)].i)
                          /\ probesOf(sent[Len(sent)].i) = gatewayCheckMaxRetry)
        /\ (probing.pc = "probe" ~> probing.pc = "done")

\* C24 witness: of two gateways the first answered its second probe and the
\* second none; the call ended with an error after the probes of both.
C24_Witness ==
    /\ probing.pc = "done"
    /\ probing.err # ""
    /\ Len(probing.gateway) = 2
    /\ probing.answers[probing.gateway[1].ip] = 2
    /\ [k \in DOMAIN probing.sent |-> probing.sent[k].i]
          = <<1, 1>> \o [k \in 1..gatewayCheckMaxRetry |-> 2]

\* C25: a probe of waitNetworkReady is an Arping exactly when the call is
\* for an underlay gateway and the probed gateway is IPv4, and a pingGateway
\* otherwise; the probe for the i-th gateway has the i-th requested address,
\* without its prefix length, as its source.
C25_ProbeKindAndSource ==
    \A k \in DOMAIN probing.sent :
        LET probe == probing.sent[k]
            gw == probing.gateway[probe.i]
        IN  /\ probe.gw = gw.ip
            /\ probe.kind \in {"Arping", "pingGateway"}
            /\ probe.kind = "Arping"
                  <=> probing.underlayGateway /\ CheckProtocol(<<gw>>) = "IPv4"
            /\ probe.src = probing.ips[probe.i].ip
            /\ probe.src \in {V4a.ip, V6a.ip}

\* C25 witness: an underlay call for an IPv4 and an IPv6 gateway sent an
\* Arping from the IPv4 address and then a pingGateway from the IPv6 address.
C25_Witness ==
    /\ probing.pc = "done"
    /\ probing.underlayGateway
    /\ probing.sent = << [kind |-> "Arping", i |-> 1, gw |-> Gw4.ip, src |-> V4a.ip],
                         [kind |-> "pingGateway", i |-> 2, gw |-> Gw6.ip, src |-> V6a.ip] >>

\* C26: the static routes of an attach request never change what the call
\* returns or what its other steps do: the result, the other calls and the
\* devices are those of the same request without static routes. When the
\* call gets to the static routes, RouteReplace is called for every entry
\* that parses, in the order of the list, whatever entries come before it;
\* an entry that does not parse gets no call; a route the kernel refuses is
\* not in the table and the routes after it are.
C26_StaticRoutesNeverFail ==
    LET h == generateNicName(lastCall.args.containerID, Eth0)[1]
        plain == lastCall.plain
        isStatic(o) == o.op = "RouteReplace" /\ o.arg.dst \notin DefaultDsts
        statics == SelectSeq(lastCall.ops, isStatic)
        parses(r) == r.dst # "192.168.0.0/33" /\ r.gw # "gateway"
        refused(r) == r.gw = "203.0.113.1"
        wanted == SelectSeq(lastCall.args.routes, parses)
        reached == plain.err = "" \/ OpsNamed(plain, {"Arping", "pingGateway"}) # <<>>
        inSwitch == lastCall.op = "configureNicWithInternalPort" /\ nic.internal[h] # "none"
        table == IF inSwitch THEN nic.iroutes[h] ELSE nic.routes[h]
        plainTable == IF inSwitch THEN plain.w.iroutes[h] ELSE plain.w.routes[h]
        last(i) == \A j \in DOMAIN wanted : (j > i /\ ~refused(wanted[j]))
                                                => wanted[j].dst # wanted[i].dst
    IN  (lastCall.op \in {"configureNic", "configureNicWithInternalPort"}
         /\ lastCall.args.routes # <<>>)
        => /\ lastCall.result = IF plain.err = "" THEN "ok" ELSE "err"
           /\ SelectSeq(lastCall.ops, LAMBDA o : ~isStatic(o)) = plain.ops
           /\ [nic EXCEPT !.routes[h] = {}, !.iroutes[h] = {}]
                 = [plain.w EXCEPT !.routes[h] = {}, !.iroutes[h] = {}]
           /\ ~reached => statics = <<>> /\ table = plainTable
           /\ reached
              => /\ [i \in DOMAIN statics |-> [dst |-> statics[i].arg.dst, gw |-> statics[i].arg.gw]]
                       = wanted
                 /\ \A i \in DOMAIN wanted :
                       /\ refused(wanted[i]) => wanted[i] \notin table
                       /\ (~refused(wanted[i]) /\ last(i)) => wanted[i] \in table
                 /\ \A x \in table : x \in plainTable \/ x \in Range(wanted)
                 /\ \A x \in plainTable :
                       x \in table \/ \E i \in DOMAIN wanted :
                                         ~refused(wanted[i]) /\ wanted[i].dst = x.dst

\* C26 witness: a request whose first static route has a destination that
\* is no CIDR and whose second is well-formed succeeded, with one
\* RouteReplace for a static route and the second route in the table.
C26_Witness ==
    /\ lastCall.op = "configureNic"
    /\ lastCall.result = "ok"
    /\ lastCall.args.routes = << [dst |-> "192.168.0.0/33", gw |-> ""],
                                 [dst |-> "192.168.0.0/16", gw |-> Gw4.ip] >>
    /\ Len(SelectSeq(lastCall.ops, LAMBDA o : o.op = "RouteReplace"
                                              /\ o.arg.dst = "192.168.0.0/16")) = 1
    /\ [dst |-> "192.168.0.0/16", gw |-> Gw4.ip]
          \in nic.routes[generateNicName(lastCall.args.containerID, Eth0)[1]]

C28_NamespaceScopedSteps ==
    LET ops == lastCall.ops
        c == PeerName(generateNicName(lastCall.args.containerID, Eth0)[1])
        scoped(o) == /\ o.link \in {Eth0, c}
                     /\ o.op \in {"LinkSetName", "AddrDel", "AddrAdd", "LinkSetHardwareAddr",
                                   "LinkSetUp", "RouteReplace", "Arping", "pingGateway",
                                   "LinkAdd", "LinkDel"}
        entries == {i \in DOMAIN ops : ops[i].op = "WithNetNSPath"}
        returns == {i \in DOMAIN ops : ops[i].op = "RestoreNetNS"}
    IN  lastCall.op \in {"configureNic", "configureNicWithInternalPort"}
        => /\ Cardinality(entries) <= 1
           /\ Cardinality(returns) = Cardinality(entries)
           /\ \A i \in DOMAIN ops :
                 scoped(ops[i]) => \E e \in entries, r \in returns : e < i /\ i < r
           /\ entries # {} => returns = {Len(ops)}
           /\ (lastCall.result = "ok" /\ lastCall.args.deviceID = "") => entries # {}

\* C28 witness: the gateway did not answer; the call failed at the probe
\* inside the namespace and returned to the namespace of the caller.
C28_Witness ==
    /\ lastCall.op = "configureNic"
    /\ lastCall.result = "err"
    /\ Len(lastCall.ops) >= 3
    /\ lastCall.ops[Len(lastCall.ops) - 1].op = "pingGateway"
    /\ lastCall.ops[Len(lastCall.ops)].op = "RestoreNetNS"
    /\ OpsNamed(lastCall, {"WithNetNSPath"}) # <<>>

\* C19: a call for one logical port changes no port, tag, shaping or device
\* that belongs to another logical port with other device names, so that
\* calls for different logical ports give the same final state in whatever
\* order their steps run.
C19_CallsLeaveOtherPortsAlone ==
    lastCall.op # "none" => ~lastCall.others

\* the device name a handler binds to br-int
BoundName(call) ==
    IF call.op = "configureNicWithInternalPort"
    THEN generateNicName(call.args.containerID, Eth0)[2]
    ELSE generateNicName(call.args.containerID, Eth0)[1]

\* C40 as stated: when the MAC of an attach request cannot be parsed and the
\* derived names are free, the call returns an error after it provisioned the
\* device and bound the port: the port is on br-int with the tag of the
\* logical port, and no host-link setup, shaping or namespace step was made.
C40_MacErrorAfterBinding ==
    (lastCall.op \in {"configureNic", "configureNicWithInternalPort"}
        /\ lastCall.fault = "mac" /\ ~lastCall.pre.link /\ ~lastCall.pre.rep)
    => /\ lastCall.result = "err"
       /\ OpsNamed(lastCall, {"add-port"}) # <<>>
       /\ \E p \in nic.ports :
             /\ p.name = BoundName(lastCall)
             /\ p.ifaceID = PodNameToPortName(lastCall.args.podName, PodNamespace,
                                              lastCall.args.provider)
       /\ OpsNamed(lastCall, {"LinkSetUp", "SetInterfaceBandwidth", "LinkSetAlias",
                              "LinkSetNsFd", "WithNetNSPath", "LinkSetName", "AddrAdd",
                              "RouteReplace", "LinkDel", "del-port"}) = <<>>

\* C40 as amended: the above holds for a request without a device id (veth
\* pair or in-switch port, whose device is the bound port itself), and the
\* new pair is still there, in the host namespace. With a device id the
\* MAC is parsed by setVfMac inside setupSriovInterface: the call returns the
\* error after the representor was renamed and before any port is bound.
C40_MacErrorAfterBindingUnlessSriov ==
    (lastCall.op \in {"configureNic", "configureNicWithInternalPort"}
        /\ lastCall.fault = "mac" /\ ~lastCall.pre.link /\ ~lastCall.pre.rep)
    => LET h == generateNicName(lastCall.args.containerID, Eth0)[1]
           ops == [i \in 1..Len(lastCall.ops) |-> lastCall.ops[i].op]
       IN  /\ lastCall.result = "err"
           /\ OpsNamed(lastCall, {"LinkSetUp", "SetInterfaceBandwidth", "LinkSetAlias",
                                  "LinkSetNsFd", "WithNetNSPath", "LinkSetName", "AddrAdd",
                                  "RouteReplace", "LinkDel", "del-port"}) = <<>>
           /\ IF lastCall.args.deviceID = ""
              THEN /\ Len(ops) >= 1 /\ ops[Len(ops)] = "add-port"
                   /\ \E p \in nic.ports :
                         /\ p.name = BoundName(lastCall)
                         /\ p.ifaceID = PodNameToPortName(lastCall.args.podName, PodNamespace,
                                                          lastCall.args.provider)
                   /\ lastCall.op = "configureNic" =>
                         nic.veth[h] = "host" /\ OpsNamed(lastCall, {"LinkAdd"}) # <<>>
              ELSE /\ ops = <<"renameLink", "LinkSetMTU", "setVfMac">>
                   /\ nic.rep = h
                   /\ lastCall.pre.port
                         \/ ~\E p \in nic.ports : p.name = h

\* C40 witness: an attach over a veth pair has returned the error of the MAC
\* with the new pair in the host namespace and the new port on br-int.
C40_Witness ==
    /\ lastCall.op = "configureNic"
    /\ lastCall.fault = "mac"
    /\ lastCall.args.deviceID = ""
    /\ ~lastCall.pre.link
    /\ ~lastCall.pre.port
    /\ lastCall.result = "err"
    /\ nic.veth[generateNicName(lastCall.args.containerID, Eth0)[1]] = "host"
    /\ OpsNamed(lastCall, {"add-port"}) # <<>>

\* the address movers together: the uplink calls on an uplink that has a
\* link-local address, and configureNic on the node NIC
AddrsNext ==
    \/ UplinkNext
    \/ configureNodeNic([ip |-> <<V4a, V6a>>, gateway |-> <<Gw4, Gw6>>], QuietGateways)
    \/ KernelLinkLocal

\* C31: a step of uplink attach, of uplink detach or of configureNic leaves
\* the link-local addresses of the uplink, of the bridge and of the link that
\* configureNic works on as they were (only the kernel gives a link such an
\* address), and no AddrDel or AddrAdd of configureNic names a link-local
\* address.
C31_LinkLocalUntouched ==
    /\ [][<<lastCall, pnOp, pnPc, pnAddrs, pnQueue, pnCur, pnResult>>'
             # <<lastCall, pnOp, pnPc, pnAddrs, pnQueue, pnCur, pnResult>> =>
            LET LL(S) == {a \in S : IsLinkLocalUnicast(a.ip)}
            IN  /\ LL(linkAddrs'["nic"]) = LL(linkAddrs["nic"])
                /\ LL(linkAddrs'["br"]) = LL(linkAddrs["br"])
                /\ LL(ovn0'.addrs) = LL(ovn0.addrs)]_vars
    /\ [](\A i \in 1..Len(lastCall.ops) :
            lastCall.ops[i].op \in {"AddrDel", "AddrAdd"}
                => ~IsLinkLocalUnicast(lastCall.ops[i].arg.ip))

\* C31 witness: a detach has returned success with link-local addresses on
\* the uplink and on the bridge, and configureNic has deleted an address of
\* the node NIC, which had and has its link-local address.
C31_Witness ==
    /\ pnOp = "remove"
    /\ pnResult = "ok"
    /\ [ip |-> "fe80::2", len |-> 64] \in linkAddrs["nic"] \cap linkAddrs["br"]
    /\ [ip |-> "10.0.0.2", len |-> 24] \in linkAddrs["nic"]
    /\ lastCall.op = "configureNodeNic"
    /\ OpsNamed(lastCall, {"AddrDel"}) # <<>>
    /\ V6LinkLocal \in lastCall.linkBefore \cap ovn0.addrs

C11_OnePortPerLogicalPort ==
    (lastCall.op \in {"configureNic", "configureNicWithInternalPort", "configureDpdkNic"} /\ lastCall.result = "ok")
    => LET L == PodNameToPortName(lastCall.args.podName, PodNamespace, lastCall.args.provider)
           H == BoundName(lastCall)
           ops == lastCall.ops
           cleanups == {i \in DOMAIN ops : ops[i].op = "CleanDuplicatePort"}
           adds == {i \in DOMAIN ops : ops[i].op = "add-port"}
       IN  /\ {p \in nic.ports : p.ifaceID = L} = {[name |-> H, ifaceID |-> L]}
           /\ Cardinality(cleanups) = 1
           /\ Cardinality(adds) = 1
           /\ \A i \in cleanups, j \in adds : i < j

C11_Witness ==
    /\ lastCall.op \in {"configureNic", "configureNicWithInternalPort", "configureDpdkNic"}
    /\ lastCall.result = "ok"
    /\ \E i \in DOMAIN lastCall.ops :
          /\ lastCall.ops[i].op = "CleanDuplicatePort"
          /\ lastCall.ops[i].arg.stale # {}
    /\ Cardinality(nic.ports) = 2

(***************************************************************************)
(* Device naming: claims                                                   *)
(***************************************************************************)

\* C13: for one container identity and any two distinct interface nicNames,
\* generateNicName returns host nicNames that differ and container nicNames that
\* differ, and within one result the host name and the container name differ.
C13_NamesNeverCollide ==
    (nicNames.called /\ nicNames.ifname1 # nicNames.ifname2)
    => /\ ~nicNames.r1.panic
       /\ ~nicNames.r2.panic
       /\ nicNames.r1.host # nicNames.r2.host
       /\ nicNames.r1.container # nicNames.r2.container
       /\ nicNames.r1.host # nicNames.r1.container
       /\ nicNames.r2.host # nicNames.r2.container

\* C14: for every container identity of at least 12 characters and every
\* interface name, generateNicName returns two nicNames of at most 15
\* characters, <id12>_h and <id12>_c for eth0 and otherwise the first
\* 12-len(ifname) characters of the identity, "_", the interface name and
\* "_h" or "_c".
C14_NamesBoundedAndTotal ==
    (nicNames.called /\ Len(nicNames.containerID) >= 12)
    => LET id == nicNames.containerID
           n == nicNames.ifname1
           stem == IF n = Eth0 THEN SubSeq(id, 1, 12)
                   ELSE SubSeq(id, 1, 12 - Len(n)) \o <<"_">> \o n
       IN  /\ ~nicNames.r1.panic
           /\ Len(nicNames.r1.host) <= 15
           /\ Len(nicNames.r1.container) <= 15
           /\ nicNames.r1.host = stem \o <<"_", "h">>
           /\ nicNames.r1.container = stem \o <<"_", "c">>

(***************************************************************************)
(* Cluster controller: queues, Run, startWorkers                           *)
(***************************************************************************)
IptablesFip == "iptables"

Configurations ==
    [ EnableLb : BOOLEAN, EnableNP : BOOLEAN, EnableEipSnat : BOOLEAN,
      PodDefaultFipType : {IptablesFip, ""}, WorkerNum : {0, 1} ]

ClusterNodes == {"node1", "node2"}
LogicalSwitches == {"ovn-default", "join"}
MaxPodItems == 2

\* no controller. nodes tells of every node whether it is known and whether
\* it carries the allocated annotation; seen is the history of the two
\* conditions startWorkers waits for
NoCluster ==
    [ config |-> [EnableLb |-> FALSE, EnableNP |-> FALSE, EnableEipSnat |-> FALSE,
                  PodDefaultFipType |-> "", WorkerNum |-> 0],
      pc |-> "none", stopCh |-> "open", queues |-> {}, shut |-> {}, workers |-> {},
      lss |-> {}, addNamespaceQueue |-> 0, nodes |-> [n \in ClusterNodes |-> "absent"],
      podQueue |-> 0, podsDone |-> 0, seen |-> {} ]

\* NewController, lines 212-586: the queues of the struct literal, and those
\* of the EnableLb, EnableNP and EnableEipSnat blocks
NewController(config) ==
    [NoCluster EXCEPT
       !.config = config,
       !.pc = "new",
       !.queues =
           { "addOrUpdateVpcQueue", "delVpcQueue", "updateVpcStatusQueue",
             "addOrUpdateVpcNatGatewayQueue", "initVpcNatGatewayQueue",
             "delVpcNatGatewayQueue", "updateVpcEipQueue", "updateVpcFloatingIpQueue",
             "updateVpcDnatQueue", "updateVpcSnatQueue", "updateVpcSubnetQueue",
             "addOrUpdateSubnetQueue", "deleteSubnetQueue", "deleteRouteQueue",
             "updateSubnetStatusQueue", "syncVirtualPortsQueue", "addVirtualIpQueue",
             "updateVirtualIpQueue", "delVirtualIpQueue", "addIptablesEipQueue",
             "updateIptablesEipQueue", "resetIptablesEipQueue", "delIptablesEipQueue",
             "addPodAnnotatedIptablesEipQueue", "updatePodAnnotatedIptablesEipQueue",
             "delPodAnnotatedIptablesEipQueue", "addIptablesFipQueue",
             "updateIptablesFipQueue", "delIptablesFipQueue",
             "addPodAnnotatedIptablesFipQueue", "updatePodAnnotatedIptablesFipQueue",
             "delPodAnnotatedIptablesFipQueue", "addIptablesDnatRuleQueue",
             "updateIptablesDnatRuleQueue", "delIptablesDnatRuleQueue",
             "addIptablesSnatRuleQueue", "updateIptablesSnatRuleQueue",
             "delIptablesSnatRuleQueue", "addVlanQueue", "delVlanQueue", "updateVlanQueue",
             "updateProviderNetworkQueue", "addPodQueue", "deletePodQueue", "updatePodQueue",
             "updatePodSecurityQueue", "addNamespaceQueue", "addNodeQueue", "updateNodeQueue",
             "deleteNodeQueue", "addServiceQueue", "deleteServiceQueue", "updateServiceQueue",
             "updateEndpointQueue", "addOrUpdateSgQueue", "delSgQueue", "syncSgPortsQueue" }
           \cup (IF config.EnableLb
                 THEN { "addSwitchLBRuleQueue", "delSwitchLBRuleQueue",
                        "UpdateSwitchLBRuleQueue", "addOrUpdateVpcDnsQueue", "delVpcDnsQueue" }
                 ELSE {})
           \cup (IF config.EnableNP THEN { "updateNpQueue", "deleteNpQueue" } ELSE {})
           \cup (IF config.EnableEipSnat
                 THEN { "addOvnEipQueue", "updateOvnEipQueue", "resetOvnEipQueue",
                        "delOvnEipQueue", "addOvnFipQueue", "updateOvnFipQueue",
                        "delOvnFipQueue", "addOvnSnatRuleQueue", "updateOvnSnatRuleQueue",
                        "delOvnSnatRuleQueue" }
                 ELSE {})]

\* Controller.shutdown, lines 701-806: the queues ShutDown is called on
shutdown(c) ==
    [c EXCEPT
       !.shut = @ \cup
           { "addPodQueue", "deletePodQueue", "updatePodQueue", "updatePodSecurityQueue",
             "addNamespaceQueue", "addOrUpdateSubnetQueue", "deleteSubnetQueue",
             "deleteRouteQueue", "updateSubnetStatusQueue", "syncVirtualPortsQueue",
             "addNodeQueue", "updateNodeQueue", "deleteNodeQueue", "addServiceQueue",
             "deleteServiceQueue", "updateServiceQueue", "updateEndpointQueue", "addVlanQueue",
             "delVlanQueue", "updateVlanQueue", "updateProviderNetworkQueue",
             "addOrUpdateVpcQueue", "updateVpcStatusQueue", "delVpcQueue",
             "addOrUpdateVpcNatGatewayQueue", "initVpcNatGatewayQueue",
             "delVpcNatGatewayQueue", "updateVpcEipQueue", "updateVpcFloatingIpQueue",
             "updateVpcDnatQueue", "updateVpcSnatQueue", "updateVpcSubnetQueue",
             "addVirtualIpQueue", "updateVirtualIpQueue", "delVirtualIpQueue",
             "addIptablesEipQueue", "updateIptablesEipQueue", "resetIptablesEipQueue",
             "delIptablesEipQueue", "addIptablesFipQueue", "updateIptablesFipQueue",
             "delIptablesFipQueue", "addIptablesDnatRuleQueue", "updateIptablesDnatRuleQueue",
             "delIptablesDnatRuleQueue", "addIptablesSnatRuleQueue",
             "updateIptablesSnatRuleQueue", "delIptablesSnatRuleQueue", "addOrUpdateSgQueue",
             "delSgQueue", "syncSgPortsQueue" }
           \cup (IF c.config.EnableLb
                 THEN { "addSwitchLBRuleQueue", "delSwitchLBRuleQueue",
                        "UpdateSwitchLBRuleQueue", "addOrUpdateVpcDnsQueue", "delVpcDnsQueue" }
                 ELSE {})
           \cup (IF c.config.EnableEipSnat
                 THEN { "addOvnEipQueue", "updateOvnEipQueue", "resetOvnEipQueue",
                        "delOvnEipQueue", "addOvnFipQueue", "updateOvnFipQueue",
                        "delOvnFipQueue", "addIptablesSnatRuleQueue",
                        "updateIptablesSnatRuleQueue", "delIptablesSnatRuleQueue" }
                 ELSE {})
           \cup (IF c.config.PodDefaultFipType = IptablesFip
                 THEN { "addPodAnnotatedIptablesEipQueue",
                        "updatePodAnnotatedIptablesEipQueue",
                        "delPodAnnotatedIptablesEipQueue", "addPodAnnotatedIptablesFipQueue",
                        "updatePodAnnotatedIptablesFipQueue", "delPodAnnotatedIptablesFipQueue" }
                 ELSE {})
           \cup (IF c.config.EnableNP THEN { "updateNpQueue", "deleteNpQueue" } ELSE {})]

PodWorkers == {"runAddPodWorker", "runDeletePodWorker", "runUpdatePodWorker",
               "runUpdatePodSecurityWorker"}
NodeWorkers == {"runAddNodeWorker", "runUpdateNodeWorker", "runDeleteNodeWorker"}

\* the two conditions startWorkers waits for: lines 834-836 and 857-862
SwitchesReady(c) == LogicalSwitches \subseteq c.lss /\ c.addNamespaceQueue = 0
NodesAllocated(c) == \A n \in ClusterNodes : c.nodes[n] # "new"

\* the history of the conditions: (a) the switches were there with an empty
\* add-namespace queue, (b) the node workers ran and every node was allocated
Observed(c) ==
    [c EXCEPT !.seen = @ \cup (IF SwitchesReady(c) THEN {"a"} ELSE {})
                         \cup (IF NodeWorkers \subseteq c.workers /\ NodesAllocated(c)
                               THEN {"b"} ELSE {})]

\* startWorkers with the pod workers among the first workers
WorkersStartedAtPodsFirst(stage, config) ==
    IF stage = 1 THEN PodWorkers \cup {"runAddSubnetWorker", "runAddVlanWorker", "runAddNamespaceWorker"}
    ELSE IF stage = 2 THEN IF config.WorkerNum > 0 THEN NodeWorkers ELSE {}
    ELSE {}

\* the go statements of startWorkers, lines 808-911: stage 1 up to the wait
\* for the switches (811-825), stage 2 up to the wait for the nodes
\* (839-848), stage 3 after it (868-911)
WorkersStartedAt(stage, config) ==
    IF stage = 1
    THEN {"runAddVpcWorker", "runAddOrUpdateVpcNatGwWorker", "runInitVpcNatGwWorker",
          "runDelVpcNatGwWorker", "runUpdateVpcFloatingIpWorker", "runUpdateVpcEipWorker",
          "runUpdateVpcDnatWorker", "runUpdateVpcSnatWorker", "runUpdateVpcSubnetWorker",
          "runAddSubnetWorker", "runAddVlanWorker", "runAddNamespaceWorker"}
    ELSE IF stage = 2
    THEN {"runAddSgWorker", "runDelSgWorker", "runSyncSgPortsWorker"}
         \cup (IF config.WorkerNum > 0 THEN NodeWorkers ELSE {})
    ELSE {"runDelVpcWorker", "runUpdateVpcStatusWorker", "runUpdateProviderNetworkWorker"}
         \cup (IF config.EnableLb
               THEN {"runAddServiceWorker", "runDeleteServiceWorker",
                     "runAddSwitchLBRuleWorker", "runDelSwitchLBRuleWorker",
                     "runUpdateSwitchLBRuleWorker", "runAddOrUpdateVpcDnsWorker",
                     "runDelVpcDnsWorker"}
               ELSE {})
         \cup (IF config.WorkerNum > 0
               THEN PodWorkers
                    \cup {"runDeleteSubnetWorker", "runDeleteRouteWorker",
                          "runUpdateSubnetStatusWorker", "runSyncVirtualPortsWorker",
                          "runDelVlanWorker", "runUpdateVlanWorker"}
                    \cup (IF config.EnableLb
                          THEN {"runUpdateServiceWorker", "runUpdateEndpointWorker"} ELSE {})
                    \cup (IF config.EnableNP
                          THEN {"runUpdateNpWorker", "runDeleteNpWorker"} ELSE {})
               ELSE {})

\* Controller.startWorkers, lines 808-911, one step for each stretch between
\* its two waits. A pass of a wait loop that finds its condition unmet
\* changes nothing; a listing that fails ends the process.
startWorkers ==
    /\ \/ /\ cluster.pc = "startWorkers"
          /\ cluster' = Observed([cluster EXCEPT
                            !.pc = "switches",
                            !.workers = @ \cup WorkersStartedAt(1, cluster.config)])
       \/ /\ cluster.pc = "switches"
          /\ SwitchesReady(cluster)
          /\ cluster' = Observed([cluster EXCEPT
                            !.pc = "nodes",
                            !.workers = @ \cup WorkersStartedAt(2, cluster.config)])
       \/ /\ cluster.pc = "nodes"
          /\ NodesAllocated(cluster)
          /\ cluster' = Observed([cluster EXCEPT
                            !.pc = "serving",
                            !.workers = @ \cup WorkersStartedAt(3, cluster.config)])
       \/ /\ cluster.pc \in {"switches", "nodes"}
          /\ cluster' = [cluster EXCEPT !.pc = "exited"]
    /\ UNCHANGED notCluster

\* Controller.Run, lines 592-699: the initialisation up to startWorkers
\* (any of its steps failing ends the process), and the return once stopCh
\* is closed, with the deferred shutdown
ClusterRun ==
    /\ \/ /\ cluster.pc = "new"
          /\ \E next \in {"startWorkers", "exited"} :
                cluster' = Observed([cluster EXCEPT !.pc = next])
       \/ /\ cluster.pc = "serving"
          /\ cluster.stopCh = "closed"
          /\ cluster' = Observed([shutdown(cluster) EXCEPT !.pc = "returned"])
    /\ UNCHANGED notCluster

\* the workers: a worker that was started takes an item of its queue until
\* the queue is shut down
ClusterWorkers ==
    /\ \/ /\ "runAddNamespaceWorker" \in cluster.workers
          /\ "addNamespaceQueue" \notin cluster.shut
          /\ cluster.addNamespaceQueue > 0
          /\ cluster' = Observed([cluster EXCEPT !.addNamespaceQueue = @ - 1])
       \/ /\ PodWorkers \cap cluster.workers # {}
          /\ "addPodQueue" \notin cluster.shut
          /\ cluster.podQueue > 0
          /\ cluster.podsDone < MaxPodItems
          /\ cluster' = Observed([cluster EXCEPT !.podQueue = @ - 1, !.podsDone = @ + 1])
    /\ UNCHANGED notCluster

\* the cluster around the controller: switches appear, namespaces and pods
\* are queued, nodes join and get the allocated annotation, stopCh is closed
ClusterEnvironment ==
    /\ cluster.pc \notin {"none", "returned", "exited"}
    /\ \/ \E ls \in LogicalSwitches \ cluster.lss :
              cluster' = Observed([cluster EXCEPT !.lss = @ \cup {ls}])
       \/ /\ cluster.addNamespaceQueue = 0
          /\ cluster' = Observed([cluster EXCEPT !.addNamespaceQueue = 1])
       \/ /\ cluster.podQueue = 0
          /\ cluster' = Observed([cluster EXCEPT !.podQueue = 1])
       \/ \E n \in ClusterNodes :
              /\ cluster.nodes[n] # "allocated"
              /\ cluster' = Observed([cluster EXCEPT
                                !.nodes[n] = IF @ = "absent" THEN "new" ELSE "allocated"])
       \/ /\ cluster.stopCh = "open"
          /\ cluster' = Observed([cluster EXCEPT !.stopCh = "closed"])
    /\ UNCHANGED notCluster

ClusterNext == ClusterRun \/ startWorkers \/ ClusterWorkers \/ ClusterEnvironment

\* C33: when Run has returned, every queue NewController created under the
\* configuration has been shut down
C33_AllQueuesShutDown ==
    cluster.pc = "returned" => cluster.queues \subseteq cluster.shut

\* C35: no pod worker runs and no pod work item is processed before (a) the
\* default and the node logical switch were there with an empty
\* add-namespace queue and (b) the node workers were started and every known
\* node carried the allocated annotation; the node workers are started in an
\* earlier step than the pod workers.
C35_PodsAfterSwitchesAndNodes ==
    /\ [](PodWorkers \cap cluster.workers # {} =>
             NodeWorkers \subseteq cluster.workers /\ {"a", "b"} \subseteq cluster.seen)
    /\ [][cluster'.podsDone # cluster.podsDone =>
             NodeWorkers \subseteq cluster.workers /\ {"a", "b"} \subseteq cluster.seen]_vars
    /\ [][(PodWorkers \cap cluster'.workers # {} /\ PodWorkers \cap cluster.workers = {}) =>
             /\ NodeWorkers \subseteq cluster.workers
             /\ {"a", "b"} \subseteq cluster.seen
             /\ NodesAllocated(cluster)]_vars

\* pod items were processed, and by now a node has joined that is not
\* allocated and a namespace is queued again
C35_Witness ==
    /\ cluster.podsDone = MaxPodItems
    /\ PodWorkers \cup NodeWorkers \subseteq cluster.workers
    /\ cluster.nodes["node1"] = "allocated" /\ cluster.nodes["node2"] = "new"
    /\ cluster.addNamespaceQueue = 1

(***************************************************************************)
(* Node daemon: Run, the four work queues and their workers                *)
(***************************************************************************)
DaemonQueues ==
    {"addOrUpdateProviderNetworkQueue", "deleteProviderNetworkQueue", "subnetQueue", "podQueue"}
DaemonCaches == {"providerNetworks", "subnets", "pods", "nodes", "htbQos"}

\* the items of a queue: one of the type the worker expects, one of another
QueueItems == {"key", "bad"}
MaxHandlerFailures == 2
MaxAdds == 1

\* a rate-limiting queue of client-go: dirty holds the items to process,
\* queue those of them a Get can return, processing the items between Get
\* and Done, waiting the items AddRateLimited holds back, requeues the
\* failures the rate limiter counts for an item
NoQueue ==
    [ dirty |-> {}, queue |-> {}, processing |-> {}, waiting |-> {},
      requeues |-> [i \in QueueItems |-> 0], shuttingDown |-> FALSE ]

NoItem == [queue |-> "", item |-> "", outcome |-> "", calls |-> <<>>]

NoDaemon ==
    [ pc |-> "none", stopCh |-> "open", synced |-> {}, setIPSet |-> "none", started |-> {},
      worker |-> [q \in DaemonQueues |-> "none"],
      queues |-> [q \in DaemonQueues |-> NoQueue],
      adds |-> 0, last |-> NoItem ]

\* last is the record of the step just taken, when a worker finished an item
\* in it
Unlogged == [daemon EXCEPT !.last = NoItem]

\* Add of the queue: dropped when the queue is shutting down, nothing new
\* for an item that is dirty, and not handed out while it is processed
QueueAdd(qs, i) ==
    IF qs.shuttingDown \/ i \in qs.dirty THEN qs
    ELSE [qs EXCEPT !.dirty = @ \cup {i},
                    !.queue = IF i \in qs.processing THEN @ ELSE @ \cup {i}]

\* one call of a worker on its queue: Done hands a dirty item out again,
\* Forget clears the count of the rate limiter, AddRateLimited counts a
\* failure and holds the item back for the delay (not on a queue that is
\* shutting down)
QueueCall(qs, call, i) ==
    IF call = "Done"
    THEN [qs EXCEPT !.processing = @ \ {i},
                    !.queue = IF i \in qs.dirty THEN @ \cup {i} ELSE @]
    ELSE IF call = "Forget" THEN [qs EXCEPT !.requeues[i] = 0]
    ELSE [qs EXCEPT !.requeues[i] = @ + 1,
                    !.waiting = IF qs.shuttingDown THEN @ ELSE @ \cup {i}]

RECURSIVE QueueCalls(_, _, _)
QueueCalls(qs, calls, i) ==
    IF calls = <<>> THEN qs
    ELSE QueueCalls(QueueCall(qs, Head(calls), i), Tail(calls), i)

\* the items a queue holds in any form
Held(qs) == qs.dirty \cup qs.processing \cup qs.waiting

\* processNext...WorkItem forgetting the item whatever the handler returned
CallsAfterGetForgetAlways(q, outcome) ==
    IF outcome = "err" THEN <<"Forget", "AddRateLimited", "Done">> ELSE <<"Forget", "Done">>

\* the calls of processNext...WorkItem on its queue after Get, lines 166-194,
\* 196-224, 437-464 and 517-546: Done is deferred in the closure; the
\* provider network workers re-add after the closure returned, the subnet
\* and the pod worker inside it
CallsAfterGet(q, outcome) ==
    IF outcome = "err"
    THEN IF q \in {"subnetQueue", "podQueue"} THEN <<"AddRateLimited", "Done">>
         ELSE <<"Done", "AddRateLimited">>
    ELSE <<"Forget", "Done">>

\* the goroutines of Run started without waiting for the caches
DaemonStartedAtAllFirst(stage) ==
    IF stage = 1
    THEN {"CleanLostInterface", "recompute", "rotateLog", "operateMod",
          "loopOvn0Check", "runAddOrUpdateProviderNetworkWorker",
          "runDeleteProviderNetworkWorker", "runSubnetWorker", "runPodWorker", "runGateway",
          "loopEncapIpCheck", "markAndCleanInternalPort"}
    ELSE {}

\* the go statements of Run: lines 654-657 before the caches are waited
\* for, lines 669-680 after setIPSet
DaemonStartedAt(stage) ==
    IF stage = 1 THEN {"CleanLostInterface", "recompute", "rotateLog", "operateMod"}
    ELSE {"loopOvn0Check", "runAddOrUpdateProviderNetworkWorker",
          "runDeleteProviderNetworkWorker", "runSubnetWorker", "runPodWorker", "runGateway",
          "loopEncapIpCheck", "markAndCleanInternalPort"}

WorkerOf(q) ==
    CASE q = "addOrUpdateProviderNetworkQueue" -> "runAddOrUpdateProviderNetworkWorker"
      [] q = "deleteProviderNetworkQueue" -> "runDeleteProviderNetworkWorker"
      [] q = "subnetQueue" -> "runSubnetWorker"
      [] q = "podQueue" -> "runPodWorker"

\* Controller.Run of the daemon, lines 648-684 (wait.Until looks at stopCh
\* before the first call of a worker: with stopCh closed at the go
\* statement the worker never runs): the first goroutines, the
\* wait for the caches (given up when stopCh is closed first), setIPSet, the
\* workers and loops, and the return once stopCh is closed, with the
\* deferred ShutDown of the four queues. LogFatalAndExit ends the process.
DaemonRun ==
    LET go(d, stage) ==
            [d EXCEPT !.started = @ \cup DaemonStartedAt(stage),
                      !.worker = [q \in DaemonQueues |->
                                     IF WorkerOf(q) \in DaemonStartedAt(stage) /\ @[q] = "none"
                                     THEN IF d.stopCh = "closed" THEN "stopped" ELSE "get"
                                     ELSE @[q]]]
    IN
    /\ \/ /\ daemon.pc = "new"
          /\ daemon' = go([Unlogged EXCEPT !.pc = "syncing"], 1)
       \/ /\ daemon.pc = "syncing"
          /\ daemon.synced = DaemonCaches
          /\ daemon' = [Unlogged EXCEPT !.pc = "setIPSet"]
       \/ /\ daemon.pc = "syncing"
          /\ daemon.synced # DaemonCaches
          /\ daemon.stopCh = "closed"
          /\ daemon' = [Unlogged EXCEPT !.pc = "exited"]
       \/ /\ daemon.pc = "setIPSet"
          /\ \/ daemon' = go([Unlogged EXCEPT !.pc = "serving", !.setIPSet = "ok"], 2)
             \/ daemon' = [Unlogged EXCEPT !.pc = "exited", !.setIPSet = "err"]
       \/ /\ daemon.pc = "serving"
          /\ daemon.stopCh = "closed"
          /\ daemon' = [Unlogged EXCEPT
                          !.pc = "returned",
                          !.queues = [q \in DaemonQueues |-> [@[q] EXCEPT !.shuttingDown = TRUE]]]
    /\ UNCHANGED notDaemon

\* the worker of queue q: processNext...WorkItem gets an item, or returns
\* false from a queue that is shut down and empty, which ends the loop of
\* run...Worker (wait.Until does not call it again, stopCh being closed
\* whenever a queue is shut down); the handler returns, and the worker makes
\* its calls on the queue. The handler fails at most MaxHandlerFailures
\* times in a row for an item.
processNextWorkItem(q) ==
    LET qs == daemon.queues[q]
        handled(i, outcome) ==
            [daemon EXCEPT
               !.queues[q] = QueueCalls(qs, CallsAfterGet(q, outcome), i),
               !.worker[q] = "get",
               !.last = [queue |-> q, item |-> i, outcome |-> outcome,
                         calls |-> CallsAfterGet(q, outcome)]]
    IN
    /\ daemon.pc # "exited"
    /\ \/ /\ daemon.worker[q] = "get"
          /\ \E i \in qs.queue :
                daemon' = [Unlogged EXCEPT !.worker[q] = "handling",
                                         !.queues[q].queue = @ \ {i},
                                         !.queues[q].dirty = @ \ {i},
                                         !.queues[q].processing = @ \cup {i}]
       \/ /\ daemon.worker[q] = "get"
          /\ qs.queue = {} /\ qs.shuttingDown
          /\ daemon' = [Unlogged EXCEPT !.worker[q] = "stopped"]
       \/ /\ daemon.worker[q] = "handling"
          /\ \E i \in qs.processing :
                \E outcome \in IF i = "bad" THEN {"wrong type"}
                               ELSE IF qs.requeues[i] < MaxHandlerFailures THEN {"ok", "err"}
                               ELSE {"ok"} :
                   daemon' = handled(i, outcome)
    /\ UNCHANGED notDaemon

\* the delay of an item held back by AddRateLimited has passed
DelayElapsed ==
    /\ daemon.pc # "exited"
    /\ \E q \in DaemonQueues : \E i \in daemon.queues[q].waiting :
          daemon' = [Unlogged EXCEPT
                       !.queues[q] = QueueAdd([@ EXCEPT !.waiting = @ \ {i}], i)]
    /\ UNCHANGED notDaemon

\* around the daemon: an informer cache has synced, an event handler puts
\* an item on a queue, stopCh is closed
DaemonEnvironment ==
    /\ daemon.pc \notin {"none", "exited"}
    /\ \/ \E c \in DaemonCaches \ daemon.synced :
              daemon' = [Unlogged EXCEPT !.synced = @ \cup {c}]
       \/ /\ daemon.adds < MaxAdds
          /\ \E q \in DaemonQueues, i \in QueueItems :
                daemon' = [Unlogged EXCEPT !.adds = @ + 1, !.queues[q] = QueueAdd(@, i)]
       \/ /\ daemon.stopCh = "open"
          /\ daemon' = [Unlogged EXCEPT !.stopCh = "closed"]
    /\ UNCHANGED notDaemon

DaemonNext ==
    \/ DaemonRun
    \/ \E q \in DaemonQueues : processNextWorkItem(q)
    \/ DelayElapsed
    \/ DaemonEnvironment

\* C34: for each of the four queues, processing one item calls Done once;
\* after an error of the handler the item is re-added rate-limited once and
\* not forgotten (the rate limiter counts one failure more, the item waits
\* for its delay unless the queue is shutting down); after success or for an
\* item of the wrong type it is forgotten and not re-added; the loop of a
\* worker ends only on a queue that is shut down and empty; and an item held
\* by the queue of a running worker eventually is not held any more.
C34_QueueDiscipline ==
    /\ [][\A q \in DaemonQueues :
             (daemon.worker[q] = "handling" /\ daemon'.worker[q] = "get") =>
                LET last == daemon'.last
                    n(c) == Cardinality({k \in 1..Len(last.calls) : last.calls[k] = c})
                    before == daemon.queues[q]
                    after == daemon'.queues[q]
                IN  /\ last.queue = q /\ before.processing = {last.item}
                    /\ n("Done") = 1 /\ after.processing = {}
                    /\ last.outcome = "err" =>
                          /\ n("AddRateLimited") = 1 /\ n("Forget") = 0
                          /\ after.requeues[last.item] = before.requeues[last.item] + 1
                          /\ last.item \in after.waiting \/ after.shuttingDown
                    /\ last.outcome \in {"ok", "wrong type"} =>
                          /\ n("Forget") = 1 /\ n("AddRateLimited") = 0
                          /\ after.requeues[last.item] = 0
                          /\ after.waiting = before.waiting
                          /\ after.dirty = before.dirty]_vars
    /\ [][\A q \in DaemonQueues :
             (daemon.worker[q] \in {"get", "handling"} /\ daemon'.worker[q] \notin {"get", "handling"}) =>
                daemon.queues[q].shuttingDown /\ daemon.queues[q].queue = {}]_vars
    /\ \A q \in DaemonQueues : \A i \in QueueItems :
          (i \in Held(daemon.queues[q]) /\ daemon.worker[q] \in {"get", "handling"})
             ~> (i \notin Held(daemon.queues[q]))

\* the pod worker has processed the key after the handler had failed for it
\* as often as it may, and the queue holds nothing any more
C34_Witness ==
    /\ daemon.last = [queue |-> "podQueue", item |-> "key", outcome |-> "ok",
                      calls |-> <<"Forget", "Done">>]
    /\ daemon.adds = 1
    /\ Held(daemon.queues["podQueue"]) = {}
    /\ daemon.worker["podQueue"] = "get"

\* C36: the provider network, subnet and pod workers, the node self-check,
\* the gateway loop and the residual-port sweep are started only after every
\* informer cache has synced and setIPSet has succeeded; when the wait for
\* the caches or setIPSet fails the process exits with none of them
\* started; when Run has returned the four queues are shut down.
C36_StartAfterSyncAndIPSet ==
    LET late == {"runAddOrUpdateProviderNetworkWorker", "runDeleteProviderNetworkWorker",
                 "runSubnetWorker", "runPodWorker", "loopOvn0Check", "runGateway",
                 "markAndCleanInternalPort"}
        running == {q \in DaemonQueues : daemon.worker[q] # "none"}
    IN  /\ (late \cap daemon.started # {} \/ running # {}) =>
              /\ daemon.synced = DaemonCaches /\ daemon.setIPSet = "ok"
              /\ late \subseteq daemon.started /\ running = DaemonQueues
        /\ daemon.pc = "exited" =>
              /\ late \cap daemon.started = {} /\ running = {}
              /\ daemon.synced # DaemonCaches \/ daemon.setIPSet = "err"
        /\ daemon.pc = "returned" =>
              /\ \A q \in DaemonQueues : daemon.queues[q].shuttingDown
              /\ late \subseteq daemon.started

\* Run has returned, and the workers have ended after they processed the
\* items that were queued
C36_Witness ==
    /\ daemon.pc = "returned"
    /\ daemon.adds = MaxAdds
    /\ \A q \in DaemonQueues : daemon.worker[q] = "stopped" /\ Held(daemon.queues[q]) = {}

(***************************************************************************)
(* Node daemon: the provider network handlers                              *)
(***************************************************************************)
NodeName == "node1"
ProviderNetworkNames == {"net1", "net2"}

\* the labels a provider network puts on a node
ProviderNetworkLabels(pn) ==
    {<<"ready", pn>>, <<"exclude", pn>>, <<"interface", pn>>, <<"mtu", pn>>}
HostnameLabel == <<"hostname", "">>

\* what the handlers of one provider network find on a node in the way of
\* other labels
OtherLabels ==
    { {}, {HostnameLabel},
      {HostnameLabel, <<"ready", "net2">>, <<"interface", "net2">>, <<"mtu", "net2">>},
      {HostnameLabel, <<"exclude", "net2">>} }

NoRun == [op |-> "none", bridge |-> "none", result |-> "none", fresh |-> TRUE, failing |-> {},
          labels |-> {}, patched |-> {}, submitted |-> {},
          status |-> [condition |-> "none", readyNodes |-> <<>>], stored |-> {}]

\* stored is the label set of the node at the API server, cached the one
\* of the node lister; pn is the provider network net1: whether it exists,
\* whether it excludes the node, Status.ReadyNodes and the condition of the
\* node in its status
NoProvider ==
    [ stored |-> {}, cached |-> {},
      pn |-> [exists |-> FALSE, exclude |-> FALSE, readyNodes |-> <<>>, condition |-> "none"],
      last |-> NoRun ]

\* the calls that fail in a handler run: the first status update, the
\* bridge initialisation with the later status update and the node patch or
\* without, the later status update, the patch, or the bridge clean-up alone;
\* "nil" is a nil label map on a node without labels
ProviderFaults ==
    { {}, {"ensure"}, {"bridge"}, {"bridge", "status"}, {"bridge", "patch"},
      {"bridge", "status", "patch"}, {"status"}, {"patch"}, {"clean"}, {"nil"} }

\* util.RemoveString and util.ContainsString
RemoveString(list, x) == SelectSeq(list, LAMBDA y : y # x)
ContainsString(list, x) == \E k \in 1..Len(list) : list[k] = x

\* the end of a handler run: what it returned, whether the lister was up to
\* date, whether a status update or a patch was to fail, the label set it
\* computed, the label set it sent in a patch and the
\* status it sent in an update (each a set of one, or of none), and the
\* status and the labels at the API server when it returned
ProviderReturn(faults, s, op, bridge, result, labels, patched, submitted) ==
    [s EXCEPT !.last = [op |-> op, bridge |-> bridge, result |-> result,
                        fresh |-> pnNode.cached = pnNode.stored,
                        failing |-> faults \cap {"status", "patch"},
                        labels |-> labels, patched |-> patched, submitted |-> submitted,
                        status |-> [condition |-> s.pn.condition,
                                    readyNodes |-> s.pn.readyNodes],
                        stored |-> s.stored]]

\* the branch of initProviderNetwork for a bridge that was not initialised,
\* returning the error of the status update when that fails
initProviderNetworkFailedLastError(s, name, faults) ==
    LET node == s.cached
        labels == node \ {<<"ready", name>>, <<"interface", name>>, <<"mtu", name>>}
        patch == node # {} /\ labels # node
        status == [condition |-> "NotReady",
                   readyNodes |-> RemoveString(s.pn.readyNodes, NodeName)]
        s1 == IF patch /\ "patch" \notin faults THEN [s EXCEPT !.stored = labels] ELSE s
        s2 == IF "status" \notin faults
              THEN [s1 EXCEPT !.pn.condition = status.condition,
                              !.pn.readyNodes = status.readyNodes]
              ELSE s1
    IN  ProviderReturn(faults, s2, "init", "err",
                       IF "status" \in faults THEN "update error" ELSE "init error",
                       {labels}, IF patch THEN {labels} ELSE {}, {status})

\* initProviderNetwork, lines 266-291: ovsInitProviderNetwork returned an
\* error. The labels are patched when the node has labels and one was
\* deleted; the errors of the patch and of the status update are logged.
initProviderNetworkFailed(s, name, faults) ==
    LET node == s.cached
        labels == node \ {<<"ready", name>>, <<"interface", name>>, <<"mtu", name>>}
        patch == node # {} /\ labels # node
        status == [condition |-> "NotReady",
                   readyNodes |-> RemoveString(s.pn.readyNodes, NodeName)]
        s1 == IF patch /\ "patch" \notin faults THEN [s EXCEPT !.stored = labels] ELSE s
        s2 == IF "status" \notin faults
              THEN [s1 EXCEPT !.pn.condition = status.condition,
                              !.pn.readyNodes = status.readyNodes]
              ELSE s1
    IN  ProviderReturn(faults, s2, "init", "err", "init error",
                       {labels}, IF patch THEN {labels} ELSE {}, {status})

\* initProviderNetwork, lines 245-323. EnsureNodeStandardConditions,
\* SetNodeReady and SetNodeNotReady are methods of the status type: the first
\* gives a node without condition one of unknown state and tells whether it
\* did. The fault "ensure" fails the first status update, "bridge"
\* ovsInitProviderNetwork, "status" the later status update, "patch" the
\* node patch; with "nil" a node without labels has a nil label map, and
\* line 303 panics.
initProviderNetwork(s, name, faults) ==
    LET node == s.cached
        ensure == s.pn.condition = "none"
        s1 == IF ensure THEN [s EXCEPT !.pn.condition = "Unknown"] ELSE s
        status == [condition |-> "Ready",
                   readyNodes |-> IF ContainsString(s.pn.readyNodes, NodeName)
                                  THEN s.pn.readyNodes
                                  ELSE Append(s.pn.readyNodes, NodeName)]
        s2 == [s1 EXCEPT !.pn.condition = status.condition,
                         !.pn.readyNodes = status.readyNodes]
        labels == (node \ {<<"exclude", name>>})
                     \cup {<<"ready", name>>, <<"interface", name>>, <<"mtu", name>>}
    IN  IF ensure /\ "ensure" \in faults
        THEN ProviderReturn(faults, s, "ensure", "none", "update error", {}, {},
                            {[condition |-> "Unknown", readyNodes |-> s.pn.readyNodes]})
        ELSE IF "bridge" \in faults THEN initProviderNetworkFailed(s1, name, faults)
        ELSE IF "status" \in faults
        THEN ProviderReturn(faults, s1, "init", "ok", "update error", {}, {}, {status})
        ELSE IF node = {} /\ "nil" \in faults
        THEN ProviderReturn(faults, s2, "init", "ok", "panic", {}, {}, {status})
        ELSE IF "patch" \in faults
        THEN ProviderReturn(faults, s2, "init", "ok", "patch error", {labels}, {labels}, {status})
        ELSE ProviderReturn(faults, [s2 EXCEPT !.stored = labels], "init", "ok", "nil",
                            {labels}, {labels}, {status})

\* cleanProviderNetwork leaving the ready label on the node
cleanProviderNetworkKeepsReady(s, name, faults) ==
    LET node == s.cached
        labels == (node \ {<<"interface", name>>, <<"mtu", name>>}) \cup {<<"exclude", name>>}
    IN  IF "patch" \in faults
        THEN ProviderReturn(faults, s, "clean", "none", "patch error", {labels}, {labels}, {})
        ELSE ProviderReturn(faults, [s EXCEPT !.stored = labels], "clean", "none", "nil",
                            {labels}, {labels}, {})

\* cleanProviderNetwork, lines 348-384, with
\* updateProviderNetworkStatusForNodeDeletion, lines 325-346.
\* RemoveNodeConditions is a method of the status type: it removes the
\* conditions of the node and tells whether there were any. The fault
\* "ensure" fails the first status update, "status" the second, "clean"
\* ovsCleanProviderNetwork; with "nil" line 367 panics on a node without
\* labels.
cleanProviderNetwork(s, name, faults) ==
    LET node == s.cached
        remove == s.pn.condition # "none"
        s1 == IF remove THEN [s EXCEPT !.pn.condition = "none"] ELSE s
        labels == (node \ {<<"ready", name>>, <<"interface", name>>, <<"mtu", name>>})
                     \cup {<<"exclude", name>>}
        s2 == [s1 EXCEPT !.stored = labels]
        needUpdate == ContainsString(s.pn.readyNodes, NodeName)
        status == [condition |-> "none", readyNodes |-> RemoveString(s.pn.readyNodes, NodeName)]
        s3 == [s2 EXCEPT !.pn.readyNodes = status.readyNodes]
    IN  IF remove /\ "ensure" \in faults
        THEN ProviderReturn(faults, s, "clean", "none", "update error", {}, {},
                            {[condition |-> "none", readyNodes |-> s.pn.readyNodes]})
        ELSE IF node = {} /\ "nil" \in faults
        THEN ProviderReturn(faults, s1, "clean", "none", "panic", {}, {}, {})
        ELSE IF "patch" \in faults
        THEN ProviderReturn(faults, s1, "clean", "none", "patch error", {labels}, {labels}, {})
        ELSE IF needUpdate /\ "status" \in faults
        THEN ProviderReturn(faults, s2, "clean", "none", "update error", {labels}, {labels}, {status})
        ELSE IF "clean" \in faults
        THEN ProviderReturn(faults, IF needUpdate THEN s3 ELSE s2, "clean", "none", "clean error",
                            {labels}, {labels}, IF needUpdate THEN {status} ELSE {})
        ELSE ProviderReturn(faults, IF needUpdate THEN s3 ELSE s2, "clean", "none", "nil",
                            {labels}, {labels}, IF needUpdate THEN {status} ELSE {})

\* handleAddOrUpdateProviderNetwork, lines 226-243: a provider network that
\* is not found is no error
handleAddOrUpdateProviderNetwork(s, name, faults) ==
    IF ~s.pn.exists
    THEN ProviderReturn(faults, s, "not found", "none", "nil", {}, {}, {})
    ELSE IF s.pn.exclude THEN cleanProviderNetwork(s, name, faults)
    ELSE initProviderNetwork(s, name, faults)

\* handleDeleteProviderNetwork, lines 386-414: the four labels are deleted
\* from a copy of the node, and the node is patched unless it has no label
\* at all
handleDeleteProviderNetwork(s, name, faults) ==
    LET node == s.cached
        labels == node \ ProviderNetworkLabels(name)
    IN  IF "clean" \in faults
        THEN ProviderReturn(faults, s, "delete", "none", "clean error", {}, {}, {})
        ELSE IF node = {}
        THEN ProviderReturn(faults, s, "delete", "none", "nil", {}, {}, {})
        ELSE IF "patch" \in faults
        THEN ProviderReturn(faults, s, "delete", "none", "patch error", {labels}, {labels}, {})
        ELSE ProviderReturn(faults, [s EXCEPT !.stored = labels], "delete", "none", "nil",
                            {labels}, {labels}, {})

\* the two workers run their handlers for net1; the node lister catches up
\* with the API server; net1 is created, deleted, and given or taken the
\* node in its ExcludeNodes
ProviderNext ==
    /\ \/ \E faults \in ProviderFaults :
              pnNode' = handleAddOrUpdateProviderNetwork(pnNode, "net1", faults)
       \/ /\ ~pnNode.pn.exists
          /\ \E faults \in SUBSET {"clean", "patch"} :
                pnNode' = handleDeleteProviderNetwork(pnNode, "net1", faults)
       \/ /\ pnNode.cached # pnNode.stored
          /\ pnNode' = [pnNode EXCEPT !.cached = pnNode.stored]
       \/ /\ pnNode.pn.exists
          /\ pnNode' = [pnNode EXCEPT !.pn.exclude = ~@]
       \/ /\ pnNode.pn.exists
          /\ pnNode' = [pnNode EXCEPT
                            !.pn = [exists |-> FALSE, exclude |-> FALSE, readyNodes |-> <<>>,
                                    condition |-> "none"]]
       \/ /\ ~pnNode.pn.exists
          /\ \E others \in {<<>>, <<"node2">>} :
                pnNode' = [pnNode EXCEPT !.pn.exists = TRUE, !.pn.readyNodes = others]
    /\ UNCHANGED notProvider

\* the labels of a node agree: no provider network has its ready and its
\* exclude label on it, and none its interface or mtu label without its
\* ready label
LabelsAgree(labels) ==
    \A pn \in ProviderNetworkNames :
       /\ ~({<<"ready", pn>>, <<"exclude", pn>>} \subseteq labels)
       /\ {<<"interface", pn>>, <<"mtu", pn>>} \cap labels # {} => <<"ready", pn>> \in labels

\* C37: whatever handlers ran, on a node whose labels agreed at the start
\* the labels agree: those at the API server, those a handler computed and
\* those it sent in a patch; and a handler of net1 leaves the labels of net2
\* as they are.
C37_LabelsAgree ==
    /\ LabelsAgree(pnNode.stored)
    /\ LabelsAgree(pnNode.cached)
    /\ \A labels \in pnNode.last.patched \cup pnNode.last.labels :
          /\ LabelsAgree(labels)
          /\ labels \ ProviderNetworkLabels("net1")
                = pnNode.stored \ ProviderNetworkLabels("net1")

\* the node was excluded after it had been ready: its exclude label has
\* taken the place of the ready, interface and mtu labels, next to the labels
\* of net2
C37_Witness ==
    /\ pnNode.last.op = "clean" /\ pnNode.last.result = "nil"
    /\ pnNode.last.patched = {pnNode.stored}
    /\ <<"exclude", "net1">> \in pnNode.stored
    /\ <<"ready", "net2">> \in pnNode.stored
    /\ <<"ready", "net1">> \in pnNode.cached

\* C38: initProviderNetwork after the bridge was initialised sends a status
\* with the node once in ReadyNodes and the condition Ready, and that is the
\* status of the provider network unless the update failed; after the bridge
\* was not initialised it sends a status with the node not in ReadyNodes and
\* the condition NotReady, which is the status unless the update failed, the
\* label set it holds (and patches, when something was deleted from it) is
\* without the ready, interface and mtu label, the node has none of them
\* unless the patch failed or the lister was behind, and the error returned
\* is that of the initialisation whatever the status update and the patch
\* returned.
C38_InitStatusAndError ==
    LET last == pnNode.last
        mine == {<<"ready", "net1">>, <<"interface", "net1">>, <<"mtu", "net1">>}
        times(list) == Cardinality({k \in 1..Len(list) : list[k] = NodeName})
    IN  /\ (last.op = "init" /\ last.bridge = "ok") =>
              /\ \E status \in last.submitted :
                    /\ last.submitted = {status}
                    /\ times(status.readyNodes) = 1
                    /\ status.condition = "Ready"
                    /\ last.result # "update error" => last.status = status
              /\ last.result \in {"nil", "update error", "patch error", "panic"}
        /\ (last.op = "init" /\ last.bridge = "err") =>
              /\ \E status \in last.submitted :
                    /\ last.submitted = {status}
                    /\ times(status.readyNodes) = 0
                    /\ status.condition = "NotReady"
                    /\ "status" \notin last.failing => last.status = status
              /\ last.result = "init error"
              /\ \E labels \in last.labels : last.labels = {labels} /\ labels \cap mine = {}
              /\ last.patched \subseteq last.labels
              /\ (last.fresh /\ "patch" \notin last.failing) => last.stored \cap mine = {}

\* the bridge of a ready node was not initialised, and both the patch
\* and the status update failed: the node keeps its labels and its place in
\* ReadyNodes, and the error returned is that of the initialisation
C38_Witness ==
    /\ pnNode.last.op = "init" /\ pnNode.last.bridge = "err"
    /\ pnNode.last.result = "init error"
    /\ pnNode.last.failing = {"status", "patch"}
    /\ pnNode.last.patched # {}
    /\ pnNode.last.status = [condition |-> "Ready", readyNodes |-> <<"node2", NodeName>>]
    /\ <<"ready", "net1">> \in pnNode.last.stored

\* no controller runs
ControlQuiet == cluster = NoCluster /\ daemon = NoDaemon /\ pnNode = NoProvider

(***************************************************************************)
(* Specifications                                                          *)
(***************************************************************************)

InitReaper == ReaperInit /\ UplinkUnused /\ NicQuiet /\ ControlQuiet
NextReaper == ReaperNext
SpecReaper == InitReaper /\ [][NextReaper]_vars

InitUplink == UplinkInit /\ ReaperInit /\ NicQuiet /\ ControlQuiet
NextUplink == UplinkNext
SpecUplink == InitUplink /\ [][NextUplink]_vars

Init == NicInit /\ ReaperInit /\ UplinkUnused /\ ControlQuiet
Next == NicNext
Spec == Init /\ [][Next]_vars

InitNode == NicQuiet /\ ReaperInit /\ UplinkUnused /\ ControlQuiet
NextNode == NodeNext
SpecNode == InitNode /\ [][NextNode]_vars

InitPorts == NicQuiet /\ ReaperInit /\ UplinkUnused /\ ControlQuiet
SpecPorts == InitPorts /\ [][PortsNext]_vars

SpecShared == InitPorts /\ [][SharedNext]_vars

SpecInstall == InitPorts /\ [][InstallNext]_vars

\* an uplink with a link-local address among its addresses, and the node NIC
InitAddrs ==
    /\ UplinkInit
    /\ nicPresent
    /\ nicUp
    /\ nicLink = PlainDevice
    /\ origAddrs = ProviderAddrs
    /\ origRoutes = {}
    /\ ReaperInit
    /\ NicQuiet
    /\ ControlQuiet
SpecAddrs == InitAddrs /\ [][AddrsNext]_vars

SpecProvision == InitPorts /\ [][ProvisionNext]_vars

\* a probe that was sent is answered or times out: the running call takes
\* its next step
SpecProbe == InitPorts /\ [][ProbeNext]_vars /\ WF_vars(ProbeStep)

\* the arguments of two calls of generateNicName for one container
InitNames ==
    /\ nicNames \in { [NoNames EXCEPT !.containerID = id, !.ifname1 = n1, !.ifname2 = n2] :
                         id \in NameContainerIDs, n1 \in NameIfNames, n2 \in NameIfNames }
    /\ nic = NoDevices("00:00:00:00:00:00")
    /\ ovn0 = [present |-> FALSE, addrs |-> {}]
    /\ lastCall = NoCall
    /\ probing = NoProbing
    /\ ReaperInit
    /\ UplinkUnused
    /\ ControlQuiet
SpecNames == InitNames /\ [][NamesCall]_vars

\* a controller made by NewController under any configuration, in a cluster
\* where a switch may exist already
InitCluster ==
    /\ cluster \in {Observed([NewController(config) EXCEPT !.lss = lss]) :
                       config \in Configurations, lss \in {{}, {"join"}}}
    /\ daemon = NoDaemon /\ pnNode = NoProvider
    /\ ReaperInit /\ UplinkUnused /\ NicQuiet
SpecCluster == InitCluster /\ [][ClusterNext]_vars

\* the daemon when Run is called
InitDaemon ==
    /\ daemon = [NoDaemon EXCEPT !.pc = "new"]
    /\ cluster = NoCluster /\ pnNode = NoProvider
    /\ ReaperInit /\ UplinkUnused /\ NicQuiet
SpecDaemon == InitDaemon /\ [][DaemonNext]_vars

\* the goroutines of the workers and the timers of the queues keep running
SpecQueues ==
    /\ SpecDaemon
    /\ \A q \in DaemonQueues : WF_vars(processNextWorkItem(q))
    /\ WF_vars(DelayElapsed)

\* a node whose labels agree, known to the lister, and no provider network
InitProvider ==
    /\ \E mine \in {{}, {<<"exclude", "net1">>}, {<<"ready", "net1">>},
                      {<<"ready", "net1">>, <<"interface", "net1">>, <<"mtu", "net1">>}} :
          \E others \in OtherLabels :
             pnNode = [NoProvider EXCEPT !.stored = mine \cup others,
                                           !.cached = mine \cup others]
    /\ cluster = NoCluster /\ daemon = NoDaemon
    /\ ReaperInit /\ UplinkUnused /\ NicQuiet
SpecProvider == InitProvider /\ [][ProviderNext]_vars

====
